---------------------------- MODULE Spec2Model ----------------------------
(***************************************************************************)
(* A model of buildkite/go-pipeline's signature engine (package signature: *)
(* Sign, Verify, canonicalPayload, requireKeys, SignSteps, SignPipeline)   *)
(* and of its key policy (package jwkutil: Validate); of package env (New *)
(* and its options, Set, Get), of interpolation, of step dispatch and      *)
(* Parse, of the merge resolver, of Plugin.FullSource, of                  *)
(* Cache.UnmarshalOrdered, of the ordered map and of the parseYAML binding *)
(* of the WASM build.                                                      *)
(*                                                                         *)
(* Go strings are modelled as sequences of bytes (tuples of numbers        *)
(* 0..255), so that sorting, prefixing and JSON escaping are computed as   *)
(* the code computes them.  A Go value that ends up in the signed values   *)
(* (map[string]any) is a record                                            *)
(*     [kind, s, m, l]                                                     *)
(* with kind "str" (s the bytes), "nil" (a nil map, slice or pointer),     *)
(* "map" (m a map[string]string), "list" (l a slice of strings) or "bad"   *)
(* (a value encoding/json cannot encode, e.g. a func or a NaN).            *)
(***************************************************************************)
EXTENDS Integers, Sequences, FiniteSets, TLC

VARIABLES
    \* --- canonical payload of two value mappings (SpecCanon) ---
    cAlg, cV1, cV2, cP1, cP2, cDone,
    \* --- one Sign call and one Verify call (SpecSign) ---
    signed,     \* Sign has returned
    sKey,       \* the key given to Sign
    sObj,       \* the SignedFielder given to Sign, as it was before the call
    sObjPost,   \* the same object after the call
    sEnv,       \* WithEnv(...) of the Sign call
    sCtx,       \* "live" or "cancelled"
    sValues,    \* Sign's values after the env:: entries were added
    sRes,       \* what Sign returned: [err, sig]
    verified,   \* Verify has returned
    vSig,       \* the signature given to Verify
    vKeys,      \* the key set given to Verify
    vObj,       \* the SignedFielder given to Verify
    vEnv,       \* WithEnv(...) of the Verify call
    vCtx,       \* "live" or "cancelled"
    vValues,    \* Verify's values after the env:: entries were added
    vLogged,    \* number of key thumbprints Verify logged
    vErr,       \* what Verify returned ("" is nil)
    \* --- one call of SignSteps or SignPipeline (SpecSteps) ---
    pDone,      \* the call has returned
    pEntry,     \* "SignSteps" or "SignPipeline"
    pKey,       \* the key given to the call
    pEnv,       \* WithEnv(...) of the call
    pBefore,    \* the steps as they were before the call
    pSteps,     \* the steps (mutated in place by the call)
    pErr,       \* the error returned: its chain of wrapped errors, <<>> is nil
    \* --- one call of jwkutil.Validate (SpecKey) ---
    kDone,      \* Validate has returned
    kKey,       \* the key given to Validate
    kErr,       \* the error Validate returned ("" is nil)
    \* --- an Env under Set and Get calls (SpecEnv) ---
    eNil,       \* the *Env is nil
    eCaseInsensitive, \* Env.caseInsensitive
    eEnv,       \* Env.env
    eSets,      \* the Set calls made so far, in order: <<key, value>> each
    eGetKey,    \* the key of the last Get call
    eGetAfter,  \* the number of Set calls made before the last Get call
    eGot,       \* what the last Get returned: [v, found]; [called |-> FALSE] before
    \* --- one call of Pipeline.Interpolate (SpecInterp) ---
    iDone,      \* Interpolate has returned
    iCaseInsensitive, \* the case mode of the runtime env
    iRuntime,   \* the runtime env given to the call (Env.env)
    iEnvIn,     \* pipeline.env before the call: <<key, value>> in declaration order
    iStepIn,    \* the step before the call
    iEnvOut,    \* pipeline.env after the call
    iStepOut,   \* the step after the call
    iMerged,    \* the runtime env after the call (the merged environment)
    iErr,       \* the error returned ("" is nil)
    \* --- one call of Parse on the step nodes of a document (SpecParse) ---
    dDone,      \* Parse has returned
    dTopLevelSequence,\* the document is a bare sequence of step nodes
    dNodes,     \* the step nodes of the document, in source order
    dDispatched,\* the variant step dispatch chose for each node, in order
    dNil,       \* the pipeline returned is nil
    dSteps,     \* the steps of the pipeline returned
    dErr,       \* the error returned: "nil", "warning" or "fatal"
    dKinds,     \* the underlying kinds of the warning, in order
    \* --- FullSource applied to a plugin and to its result (SpecPlugin) ---
    gSource,    \* the Source of the plugin
    gCalls,     \* the number of FullSource calls made
    gFirst,     \* FullSource of the plugin
    gSecond,    \* FullSource of a plugin whose Source is gFirst
    \* --- a mapping with merge keys, resolved in its two forms (SpecMerge) ---
    mExplicit,  \* the keys the mapping declares, with their values
    mAliases,   \* the aliased mappings, in the order they are merged
    mMergeFirst,\* the merge keys come before the declared keys
    mSeqDone,   \* the form with one merge key and a sequence is resolved
    mSeqOut,    \* its resolved mapping
    mRepDone,   \* the form with one merge key per alias is resolved
    mRepOut,    \* its resolved mapping
    \* --- one call of Cache.UnmarshalOrdered (SpecCache) ---
    hDone,      \* UnmarshalOrdered has returned
    hSrc,       \* the value given to UnmarshalOrdered
    hPaths,     \* c.Paths: [nil, l]
    hRemaining, \* c.RemainingFields: the set of its keys, {} when nil
    hErr,       \* the error returned ("" is nil)
    \* --- Set calls on one ordered map (SpecOrdered) ---
    oItems,     \* the items of the map
    oCalls,     \* the Set calls made so far: <<key, value>> in order
    \* --- one Sign call and two Verify calls on a signature as presented (SpecPresent) ---
    tSigned,    \* Sign has returned
    tKey,       \* the key given to Sign
    tObj,       \* the SignedFielder given to Sign
    tObjPost,   \* the SignedFielder after Sign
    tSignEnv,   \* the env given to Sign
    tRes,       \* what Sign returned: [err, sig]
    tVerified,  \* the number of Verify calls made
    tSig,       \* the signature given to Verify
    tKeyMaterial,\* the key material given to Verify: [kind, keys, signer]
    tVerObj,    \* the SignedFielder given to Verify
    tEnv1,      \* the env given to the first Verify call
    tErr1,      \* the error it returned ("" is nil)
    tEnv2,      \* the env given to the second Verify call
    tErr2,      \* the error it returned
    \* --- env.New with its options ---
    nDone,      \* New has returned
    nGoos,      \* runtime.GOOS of the build
    nOpts,      \* the options New was called with, in order
    nEnv,       \* e.env of the Env New returned
    nCaseInsensitive,\* e.caseInsensitive of the Env New returned
    nGetKey,    \* the key of the last Get on that Env
    nGot,       \* the result of that Get
    \* --- the parseYAML binding of the WASM build ---
    wPromises,  \* the promises parseYAML returned, each with its goroutine
    wCrashed    \* a goroutine panicked: the Go program has exited

canonVars == <<cAlg, cV1, cV2, cP1, cP2, cDone>>
signVars == <<signed, sKey, sObj, sObjPost, sEnv, sCtx, sValues, sRes>>
verifyVars == <<verified, vSig, vKeys, vObj, vEnv, vCtx, vValues, vLogged, vErr>>

stepsVars == <<pDone, pEntry, pKey, pEnv, pBefore, pSteps, pErr>>

keyVars == <<kDone, kKey, kErr>>

signSideVars == <<canonVars, signVars, verifyVars, stepsVars, keyVars>>

envVars == <<eNil, eCaseInsensitive, eEnv, eSets, eGetKey, eGetAfter, eGot>>

interpVars == <<iDone, iCaseInsensitive, iRuntime, iEnvIn, iStepIn, iEnvOut,
                iStepOut, iMerged, iErr>>

docVars == <<dDone, dTopLevelSequence, dNodes, dDispatched, dNil, dSteps, dErr, dKinds>>

pluginVars == <<gSource, gCalls, gFirst, gSecond>>

mergeVars == <<mExplicit, mAliases, mMergeFirst, mSeqDone, mSeqOut, mRepDone, mRepOut>>

cacheVars == <<hDone, hSrc, hPaths, hRemaining, hErr>>

orderedVars == <<oItems, oCalls>>

tamperVars == <<tSigned, tKey, tObj, tObjPost, tSignEnv, tRes, tVerified, tSig, tKeyMaterial, tVerObj, tEnv1, tErr1, tEnv2, tErr2>>

newVars == <<nDone, nGoos, nOpts, nEnv, nCaseInsensitive, nGetKey, nGot>>

wasmVars == <<wPromises, wCrashed>>

parseSideVars == <<envVars, interpVars, docVars, pluginVars, mergeVars, cacheVars, orderedVars, tamperVars, newVars, wasmVars>>

vars == <<signSideVars, parseSideVars>>

-----------------------------------------------------------------------------
(* Bounds of the model.                                                    *)

\* Longest string value drawn for the payload comparison.
MaxValLen == 2

\* Most steps (group steps and the steps inside them included) of a pipeline
\* given to SignSteps.
MaxNodes == 3

\* Most Set calls made on one Env.
MaxSets == 3

\* Most entries of a pipeline's env block.
MaxEnvEntries == 2

-----------------------------------------------------------------------------
(* Byte strings.                                                           *)

Str(s) == [kind |-> "str", s |-> s, m |-> <<>>, l |-> <<>>]
NilVal == [kind |-> "nil", s |-> <<>>, m |-> <<>>, l |-> <<>>]
MapVal(m) == [kind |-> "map", s |-> <<>>, m |-> m, l |-> <<>>]
ListVal(l) == [kind |-> "list", s |-> <<>>, m |-> <<>>, l |-> l]
BadVal == [kind |-> "bad", s |-> <<>>, m |-> <<>>, l |-> <<>>]

\* The empty Go map (non-nil, length 0).
EmptyMap == <<>>

\* Byte-wise lexicographic order on strings: Go's < on strings, which
\* sort.Strings uses.
RECURSIVE LexLess(_, _)
LexLess(a, b) ==
    IF Len(a) = 0 THEN Len(b) > 0
    ELSE IF Len(b) = 0 THEN FALSE
    ELSE IF Head(a) < Head(b) THEN TRUE
    ELSE IF Head(a) > Head(b) THEN FALSE
    ELSE LexLess(Tail(a), Tail(b))

HasPrefix(s, p) == Len(s) >= Len(p) /\ SubSeq(s, 1, Len(p)) = p

\* All strings over alphabet A of length at most n.
RECURSIVE StringsUpTo(_, _)
StringsUpTo(A, n) ==
    IF n = 0 THEN {<<>>}
    ELSE LET shorter == StringsUpTo(A, n - 1)
         IN  shorter \cup {<<c>> \o s : c \in A, s \in {t \in shorter : Len(t) = n - 1}}

-----------------------------------------------------------------------------
(* encoding/json and RFC 8785 (JCS), as canonicalPayload composes them.    *)

\* unicode/utf8: the number of bytes of the valid UTF-8 encoding that starts
\* at the head of s, or 0 when the head byte starts no valid encoding.
IsCont(b) == b >= 128 /\ b <= 191

Utf8Size(s) ==
    LET b0 == s[1]
        n  == Len(s)
    IN  IF b0 < 128 THEN 1
        ELSE IF b0 >= 194 /\ b0 <= 223
            THEN IF n >= 2 /\ IsCont(s[2]) THEN 2 ELSE 0
        ELSE IF b0 >= 224 /\ b0 <= 239
            THEN IF n >= 3 /\ IsCont(s[2]) /\ IsCont(s[3])
                    /\ (b0 = 224 => s[2] >= 160)
                    /\ (b0 = 237 => s[2] <= 159)
                 THEN 3 ELSE 0
        ELSE IF b0 >= 240 /\ b0 <= 244
            THEN IF n >= 4 /\ IsCont(s[2]) /\ IsCont(s[3]) /\ IsCont(s[4])
                    /\ (b0 = 240 => s[2] >= 144)
                    /\ (b0 = 244 => s[2] <= 143)
                 THEN 4 ELSE 0
        ELSE 0

\* U+FFFD, the Unicode replacement character, in UTF-8.
ReplacementChar == <<239, 191, 189>>

\* json.Marshal on a string: "String values encode as JSON strings coerced
\* to valid UTF-8, replacing invalid bytes with the Unicode replacement
\* rune."  The result is the string the JSON text denotes.
RECURSIVE CoerceUTF8(_)
CoerceUTF8(s) ==
    IF Len(s) = 0 THEN <<>>
    ELSE LET k == Utf8Size(s)
         IN  IF k = 0 THEN ReplacementChar \o CoerceUTF8(Tail(s))
             ELSE SubSeq(s, 1, k) \o CoerceUTF8(SubSeq(s, k + 1, Len(s)))

HexDigit(n) == IF n < 10 THEN 48 + n ELSE 87 + n

\* JCS string serialization of one character (RFC 8785, 3.2.2.2): \" and \\,
\* the short escapes \b \t \n \f \r, \u00xx for the other control
\* characters, everything else as is.
JcsEscapeChar(c) ==
    IF c = 34 THEN <<92, 34>>
    ELSE IF c = 92 THEN <<92, 92>>
    ELSE IF c = 8 THEN <<92, 98>>
    ELSE IF c = 9 THEN <<92, 116>>
    ELSE IF c = 10 THEN <<92, 110>>
    ELSE IF c = 12 THEN <<92, 102>>
    ELSE IF c = 13 THEN <<92, 114>>
    ELSE IF c < 32 THEN <<92, 117, 48, 48, HexDigit(c \div 16), HexDigit(c % 16)>>
    ELSE <<c>>

RECURSIVE JcsEscape(_)
JcsEscape(s) ==
    IF Len(s) = 0 THEN <<>> ELSE JcsEscapeChar(Head(s)) \o JcsEscape(Tail(s))

\* A Go string as it stands in the canonical payload: marshalled by
\* encoding/json, then re-serialized by jcs.Transform.
EncString(s) == <<34>> \o JcsEscape(CoerceUTF8(s)) \o <<34>>

\* The keys of a JSON object in the order JCS writes them (ascending; the
\* keys of the model are ASCII, where UTF-16 order is byte order).
RECURSIVE SortedKeys(_)
SortedKeys(S) ==
    IF S = {} THEN <<>>
    ELSE LET least == CHOOSE k \in S : \A o \in S \ {k} : LexLess(k, o)
         IN  <<least>> \o SortedKeys(S \ {least})

RECURSIVE EncStrMapFrom(_, _, _)
EncStrMapFrom(m, keys, i) ==
    IF i > Len(keys) THEN <<>>
    ELSE (IF i > 1 THEN <<44>> ELSE <<>>)
         \o EncString(keys[i]) \o <<58>> \o EncString(m[keys[i]])
         \o EncStrMapFrom(m, keys, i + 1)

\* A map[string]string as a JSON object.
EncStrMap(m) == <<123>> \o EncStrMapFrom(m, SortedKeys(DOMAIN m), 1) \o <<125>>

RECURSIVE EncStrListFrom(_, _)
EncStrListFrom(l, i) ==
    IF i > Len(l) THEN <<>>
    ELSE (IF i > 1 THEN <<44>> ELSE <<>>) \o EncString(l[i]) \o EncStrListFrom(l, i + 1)

\* A value of the signed values as JSON; a nil map, slice or pointer is null.
EncValue(v) ==
    CASE v.kind = "str"  -> EncString(v.s)
      [] v.kind = "nil"  -> <<110, 117, 108, 108>>
      [] v.kind = "map"  -> EncStrMap(v.m)
      [] v.kind = "list" -> <<91>> \o EncStrListFrom(v.l, 1) \o <<93>>

RECURSIVE EncValuesFrom(_, _, _)
EncValuesFrom(values, keys, i) ==
    IF i > Len(keys) THEN <<>>
    ELSE (IF i > 1 THEN <<44>> ELSE <<>>)
         \o EncString(keys[i]) \o <<58>> \o EncValue(values[keys[i]])
         \o EncValuesFrom(values, keys, i + 1)

\* json.Marshal fails on a value it cannot encode.
Marshalable(values) == \A k \in DOMAIN values : values[k].kind # "bad"

\* canonicalPayload: {"alg":<alg>,"values":{...}} in JCS form, or the
\* marshalling error.
canonicalPayload(alg, values) ==
    IF ~Marshalable(values)
    THEN [err |-> "marshaling JSON", bytes |-> <<>>]
    ELSE [err |-> "",
          bytes |-> <<123, 34, 97, 108, 103, 34, 58>> \o EncString(alg)
                    \o <<44, 34, 118, 97, 108, 117, 101, 115, 34, 58, 123>>
                    \o EncValuesFrom(values, SortedKeys(DOMAIN values), 1)
                    \o <<125, 125>>]

-----------------------------------------------------------------------------
(* Names of the signed fields, and the objects that are signed.            *)

s_command == <<99, 111, 109, 109, 97, 110, 100>>
s_env == <<101, 110, 118>>
s_plugins == <<112, 108, 117, 103, 105, 110, 115>>
s_matrix == <<109, 97, 116, 114, 105, 120>>
s_repository_url == <<114, 101, 112, 111, 115, 105, 116, 111, 114, 121, 95, 117, 114, 108>>

\* const EnvNamespacePrefix = "env::"
EnvNamespacePrefix == <<101, 110, 118, 58, 58>>

Range(seq) == {seq[i] : i \in 1..Len(seq)}

\* A CommandStepWithInvariants: the command step's signed parts and the
\* repository URL.  Env, Plugins and Matrix are NilVal when nil.
CommandStepWithInvariants(command, env, plugins, matrix, url) ==
    [type |-> "step", Command |-> command, Env |-> env, Plugins |-> plugins,
     Matrix |-> matrix, RepositoryURL |-> url, fields |-> <<>>]

\* A testFields object: a map[string]any that is its own signed fields.
testFields(m) ==
    [type |-> "fields", Command |-> <<>>, Env |-> NilVal, Plugins |-> NilVal,
     Matrix |-> NilVal, RepositoryURL |-> <<>>, fields |-> m]

\* KeepMap: a canonicaliser that leaves an empty map as it is.
KeepMap(m) == m

\* EmptyToNilMap returns a nil map if m is empty, otherwise it returns m.
EmptyToNilMap(m) ==
    IF m.kind = "nil" \/ (m.kind = "map" /\ DOMAIN m.m = {}) THEN NilVal ELSE m

\* EmptyToNilSlice returns a nil slice if s is empty, otherwise it returns s.
EmptyToNilSlice(s) ==
    IF s.kind = "nil" \/ (s.kind = "list" /\ Len(s.l) = 0) THEN NilVal ELSE s

\* EmptyToNilPtr returns a nil pointer if p.IsEmpty(), otherwise p.  A matrix
\* is modelled by the list of its values; it is empty when it has none.
EmptyToNilPtr(p) ==
    IF p.kind = "nil" \/ (p.kind = "list" /\ Len(p.l) = 0) THEN NilVal ELSE p

\* CommandStepWithInvariants.SignedFields: the five fields a command step
\* signs, with empty env, plugins and matrix canonicalised to nil.
StepSignedFields(c) ==
    (s_command :> Str(c.Command))
    @@ (s_env :> EmptyToNilMap(c.Env))
    @@ (s_plugins :> EmptyToNilSlice(c.Plugins))
    @@ (s_matrix :> EmptyToNilPtr(c.Matrix))
    @@ (s_repository_url :> Str(c.RepositoryURL))

RequiredStepFields == {s_command, s_env, s_plugins, s_matrix, s_repository_url}

\* CommandStepWithInvariants.ValuesForFields: a value for each requested
\* field of the step; env:: fields come from outside the step and are
\* skipped; an unknown field, or a request that leaves out one of the
\* step's own fields, is an error.
StepValuesForFields(c, fields) ==
    LET asked == Range(fields)
        own   == asked \cap RequiredStepFields
        all   == StepSignedFields(c)
    IN  IF \E f \in asked : f \notin RequiredStepFields /\ ~HasPrefix(f, EnvNamespacePrefix)
        THEN [err |-> "unknown or unsupported field", values |-> <<>>]
        ELSE IF own # RequiredStepFields
        THEN [err |-> "required fields are not present", values |-> <<>>]
        ELSE [err |-> "", values |-> [f \in own |-> all[f]]]

\* SignedFielder.SignedFields, for the two implementations.
SignedFields(sf) ==
    IF sf.type = "step"
    THEN [err |-> "", values |-> StepSignedFields(sf)]
    ELSE [err |-> "", values |-> sf.fields]

\* SignedFielder.ValuesForFields; testFields fails on a field it does not
\* hold and copies the others.
ValuesForFields(sf, fields) ==
    IF sf.type = "step"
    THEN StepValuesForFields(sf, fields)
    ELSE IF \E i \in 1..Len(fields) : fields[i] \notin DOMAIN sf.fields
         THEN [err |-> "unknown field", values |-> <<>>]
         ELSE [err |-> "", values |-> [f \in Range(fields) |-> sf.fields[f]]]

-----------------------------------------------------------------------------
(* Keys and the JWS layer.  A key has a key id, an algorithm name and its  *)
(* key material; a detached JWS is the header (alg, kid) and a signature   *)
(* that only the key material it was made with verifies, over the payload  *)
(* it was made for.                                                        *)

HS256Name == <<72, 83, 50, 53, 54>>
EdDSA == <<69, 100, 68, 83, 65>>
Rot13 == <<114, 111, 116, 49, 51>>

ES256Name == <<69, 83, 50, 53, 54>>

SupportedJwsAlgorithms == {HS256Name, EdDSA, ES256Name}

NoValue == [alg |-> <<>>, kid |-> "", mat |-> "", payload |-> <<>>]

\* jws.Sign(nil, jws.WithKey(key.Algorithm(), key), jws.WithDetachedPayload(payload))
jwsSign(key, payload) ==
    IF key.alg \notin SupportedJwsAlgorithms
    THEN [err |-> "unsupported signature algorithm", value |-> NoValue]
    ELSE [err |-> "",
          value |-> [alg |-> key.alg, kid |-> key.kid, mat |-> key.mat,
                     payload |-> payload]]

\* jws.Verify(value, jws.WithKeySet(keySet), jws.WithDetachedPayload(payload)):
\* nil when a key of the set with the header's key id and algorithm verifies
\* the signature over the payload.
jwsVerify(value, keySet, payload) ==
    IF \E k \in keySet :
          /\ k.kid = value.kid
          /\ k.alg = value.alg
          /\ k.mat = value.mat
          /\ value.alg \in SupportedJwsAlgorithms
          /\ value.payload = payload
    THEN ""
    ELSE "could not verify message using any of the signatures or keys"

\* jws.Verify(value, jws.WithKey(alg, key), jws.WithDetachedPayload(payload)):
\* nil when the signature was made with the key, is of the algorithm given
\* and is over the payload.
jwsVerifyWithKey(value, alg, key, payload) ==
    IF /\ key.mat = value.mat
       /\ alg = value.alg
       /\ alg \in SupportedJwsAlgorithms
       /\ value.payload = payload
    THEN ""
    ELSE "could not verify message using any of the signatures or keys"

-----------------------------------------------------------------------------
(* Sign and Verify.                                                        *)

NoSignature == [Algorithm |-> <<>>, SignedFields |-> <<>>, Value |-> NoValue]

\* objEnv, _ := values["env"].(map[string]string): the object's own env, or
\* the nil map when values holds no such map.
objEnvOf(values) ==
    IF s_env \in DOMAIN values /\ values[s_env].kind = "map"
    THEN values[s_env].m
    ELSE EmptyMap

\* The env:: entries of the loop over options.env: one for every variable
\* of env that the object's env does not define.
EnvEntries(env, objEnv) ==
    [n \in {EnvNamespacePrefix \o k : k \in (DOMAIN env) \ (DOMAIN objEnv)}
        |-> Str(env[SubSeq(n, Len(EnvNamespacePrefix) + 1, Len(n))])]

\* SignValuesNoPrecedence, VerifyValuesNoPrecedence: the loop without the
\* check for the object's env.
SignValuesNoPrecedence(values, env) == EnvEntries(env, EmptyMap) @@ values

\* Sign: values after "Namespace the env values and include them in the
\* values to sign".
SignValues(values, env) == EnvEntries(env, objEnvOf(values)) @@ values

VerifyValuesNoPrecedence(values, env) == EnvEntries(env, EmptyMap) @@ values

\* Verify: the same loop, on the values ValuesForFields returned.
VerifyValues(values, env) == EnvEntries(env, objEnvOf(values)) @@ values

\* The order in which Go ranges over the keys of a map: unspecified.  Three
\* orders stand for it.
MapOrders == {"ascending", "descending", "rotated"}

Reverse(seq) == [i \in 1..Len(seq) |-> seq[Len(seq) + 1 - i]]

MapOrder(S, order) ==
    LET asc == SortedKeys(S)
    IN  CASE order = "ascending"  -> asc
          [] order = "descending" -> Reverse(asc)
          [] order = "rotated"    -> IF Len(asc) = 0 THEN asc ELSE Tail(asc) \o <<Head(asc)>>

\* Insert string x into the ascending sequence seq.
RECURSIVE InsertSorted(_, _)
InsertSorted(seq, x) ==
    IF Len(seq) = 0 THEN <<x>>
    ELSE IF LexLess(x, Head(seq)) THEN <<x>> \o seq
    ELSE <<Head(seq)>> \o InsertSorted(Tail(seq), x)

RECURSIVE SortFrom(_, _, _)
SortFrom(seq, i, acc) ==
    IF i > Len(seq) THEN acc ELSE SortFrom(seq, i + 1, InsertSorted(acc, seq[i]))

\* Unsorted: the field names as the range over the map yielded them.
Unsorted(seq) == seq

\* sort.Strings(fields)
sortStrings(seq) == SortFrom(seq, 1, <<>>)

\* SkipMissingKeys: a requireKeys that leaves out the keys the map lacks.
SkipMissingKeys(in, keys) ==
    [err |-> "", out |-> [k \in Range(keys) \cap DOMAIN in |-> in[k]]]

\* requireKeys returns a copy of a map containing only keys from a []string.
\* An error is returned if any keys are missing from the map.
\* KeepEveryValue: a requireKeys whose copy holds every entry of the map.
KeepEveryValue(in, keys) ==
    IF \E i \in 1..Len(keys) : keys[i] \notin DOMAIN in
    THEN [err |-> "missing key", out |-> <<>>]
    ELSE [err |-> "", out |-> in]

requireKeys(in, keys) ==
    IF \E i \in 1..Len(keys) : keys[i] \notin DOMAIN in
    THEN [err |-> "missing key", out |-> <<>>]
    ELSE [err |-> "", out |-> [k \in Range(keys) |-> in[k]]]

SignReturn(err, sig, values, post) ==
    [err |-> err, sig |-> sig, values |-> values, post |-> post]

\* Sign computes a new signature for an environment (env) combined with an
\* object containing values (sf) using a given key.  The context parameter
\* is not used (func Sign(_ context.Context, ...)); order is the order in
\* which the range over values yields the field names.
Sign(ctx, key, sf, env, order) ==
    LET sfv     == SignedFields(sf)
        values  == SignValues(sfv.values, env)
        \* testFields.SignedFields returns the object's own map, which the
        \* loop over options.env writes to.
        post    == IF sf.type = "fields" THEN testFields(values) ELSE sf
        fields  == sortStrings(MapOrder(DOMAIN values, order))
        payload == canonicalPayload(key.alg, values)
        signedv == jwsSign(key, payload.bytes)
    IN  IF sfv.err # "" THEN SignReturn(sfv.err, NoSignature, <<>>, sf)
        ELSE IF DOMAIN sfv.values = {} THEN SignReturn("no fields to sign", NoSignature, <<>>, sf)
        ELSE IF payload.err # "" THEN SignReturn(payload.err, NoSignature, values, post)
        ELSE IF signedv.err # "" THEN SignReturn(signedv.err, NoSignature, values, post)
        ELSE SignReturn("", [Algorithm |-> key.alg, SignedFields |-> fields,
                             Value |-> signedv.value], values, post)

\* VerifyPayloadWithoutFieldCheck: the signed fields are not checked for
\* being empty.
VerifyPayloadWithoutFieldCheck(s, sf, env) ==
    LET vff      == ValuesForFields(sf, s.SignedFields)
        values   == VerifyValues(vff.values, env)
        required == requireKeys(values, s.SignedFields)
        payload  == canonicalPayload(s.Algorithm, required.out)
    IN  IF vff.err # ""
        THEN [err |-> "obtaining values for fields", values |-> <<>>, bytes |-> <<>>]
        ELSE IF required.err # ""
        THEN [err |-> "obtaining required keys", values |-> values, bytes |-> <<>>]
        ELSE [err |-> payload.err, values |-> values, bytes |-> payload.bytes]

\* A Verify whose payload names HS256 whatever s.Algorithm says.
VerifyPayloadWithFixedAlgorithm(s, sf, env) ==
    LET vff      == ValuesForFields(sf, s.SignedFields)
        values   == VerifyValues(vff.values, env)
        required == requireKeys(values, s.SignedFields)
        payload  == canonicalPayload(HS256Name, required.out)
    IN  IF Len(s.SignedFields) = 0
        THEN [err |-> "signature covers no fields", values |-> <<>>, bytes |-> <<>>]
        ELSE IF vff.err # ""
        THEN [err |-> "obtaining values for fields", values |-> <<>>, bytes |-> <<>>]
        ELSE IF required.err # ""
        THEN [err |-> "obtaining required keys", values |-> values, bytes |-> <<>>]
        ELSE [err |-> payload.err, values |-> values, bytes |-> payload.bytes]

\* Verify, up to the canonical payload: the values of the signed fields, the
\* env:: entries, the required keys and their payload.
VerifyPayload(s, sf, env) ==
    LET vff      == ValuesForFields(sf, s.SignedFields)
        values   == VerifyValues(vff.values, env)
        required == requireKeys(values, s.SignedFields)
        payload  == canonicalPayload(s.Algorithm, required.out)
    IN  IF Len(s.SignedFields) = 0
        THEN [err |-> "signature covers no fields", values |-> <<>>, bytes |-> <<>>]
        ELSE IF vff.err # ""
        THEN [err |-> "obtaining values for fields", values |-> <<>>, bytes |-> <<>>]
        ELSE IF required.err # ""
        THEN [err |-> "obtaining required keys", values |-> values, bytes |-> <<>>]
        ELSE [err |-> payload.err, values |-> values, bytes |-> payload.bytes]

\* VerifyHonouringContext: a Verify that gives up on a cancelled context.
VerifyHonouringContext(ctx, s, keySet, sf, env) ==
    LET p == VerifyPayload(s, sf, env)
    IN  IF ctx = "cancelled" THEN [err |-> "context canceled", values |-> <<>>]
        ELSE IF p.err # "" THEN [err |-> p.err, values |-> p.values]
        ELSE [err |-> jwsVerify(s.Value, keySet, p.bytes), values |-> p.values]

\* Verify verifies an existing signature against environment (env) combined
\* with an object containing values (sf) using keys from a keySet.  The
\* context reaches only the loop that logs the keys' thumbprints.
Verify(ctx, s, keySet, sf, env) ==
    LET p == VerifyPayload(s, sf, env)
    IN  IF p.err # "" THEN [err |-> p.err, values |-> p.values]
        ELSE [err |-> jwsVerify(s.Value, keySet, p.bytes), values |-> p.values]


\* Key material for Verify: a jwk.Set or a crypto.Signer.
NoKey == [kid |-> "", alg |-> <<>>, mat |-> ""]

KeySetMaterial(keys) == [kind |-> "set", keys |-> keys, signer |-> NoKey]

SignerMaterial(signer) == [kind |-> "signer", keys |-> {}, signer |-> signer]

\* VerifyWithSignerAlgorithm: the signer is asked for its algorithm.
VerifyWithSignerAlgorithm(ctx, s, signer, sf, env) ==
    LET p == VerifyPayload(s, sf, env)
    IN  IF p.err # "" THEN [err |-> p.err, values |-> p.values]
        ELSE [err |-> jwsVerifyWithKey(s.Value, signer.alg, signer, p.bytes),
              values |-> p.values]

\* Verify, case crypto.Signer: keyOpt = jws.WithKey(jwa.ES256, keySet).
VerifyWithSigner(ctx, s, signer, sf, env) ==
    LET p == VerifyPayload(s, sf, env)
    IN  IF p.err # "" THEN [err |-> p.err, values |-> p.values]
        ELSE [err |-> jwsVerifyWithKey(s.Value, ES256Name, signer, p.bytes),
              values |-> p.values]

\* Verify, by the type of its key material: switch keySet := keySet.(type).
VerifyAny(ctx, s, keyMaterial, sf, env) ==
    IF keyMaterial.kind = "set"
    THEN Verify(ctx, s, keyMaterial.keys, sf, env)
    ELSE VerifyWithSigner(ctx, s, keyMaterial.signer, sf, env)

\* How many thumbprints `for it := keySet.Keys(ctx); it.Next(ctx);` logs: all
\* of them under a live context, any number of them once it is cancelled.
ThumbprintsLogged(ctx, keySet) ==
    IF ctx = "cancelled" THEN 0..Cardinality(keySet) ELSE {Cardinality(keySet)}

-----------------------------------------------------------------------------
(* The inputs drawn for Sign and Verify.                                   *)

VarA == <<65>>
VarB == <<66>>
Val1 == <<49>>
Val2 == <<50>>

\* Pipeline and verification environments over the variables A ("1" or "2")
\* and B ("1").
Envs ==
    {EmptyMap, (VarA :> Val1), (VarA :> Val2), (VarB :> Val1),
     (VarA :> Val2) @@ (VarB :> Val1)}

CmdA == <<97>>
CmdB == <<98>>
RepoURL == <<114>>
PluginP == <<112>>

Step(command, env, plugins, matrix) ==
    CommandStepWithInvariants(command, env, plugins, matrix, RepoURL)

\* Command steps: every field nil, each of env, plugins and matrix empty in
\* turn, env and plugins filled, all three empty, another command, and a
\* step whose plugin configuration encoding/json cannot encode.
StepObjects ==
    {Step(CmdA, NilVal, NilVal, NilVal),
     Step(CmdA, MapVal(EmptyMap), NilVal, NilVal),
     Step(CmdA, MapVal(VarA :> Val1), NilVal, NilVal),
     Step(CmdA, NilVal, ListVal(<<>>), NilVal),
     Step(CmdA, NilVal, ListVal(<<PluginP>>), NilVal),
     Step(CmdA, NilVal, NilVal, ListVal(<<>>)),
     Step(CmdA, MapVal(EmptyMap), ListVal(<<>>), ListVal(<<>>)),
     Step(CmdB, NilVal, NilVal, NilVal),
     Step(CmdA, NilVal, BadVal, NilVal)}

s_foo == <<102, 111, 111>>
s_qux == <<113, 117, 120>>
s_bar == <<98, 97, 114>>
s_zap == <<122, 97, 112>>

FieldObjects ==
    {testFields((s_foo :> Str(s_bar)) @@ (s_qux :> Str(s_zap))),
     testFields(EmptyMap)}

Objects == StepObjects \cup FieldObjects

Key1 == [kid |-> "chartreuse", alg |-> HS256Name, mat |-> "alpacas"]
Key2 == [kid |-> "vermilion", alg |-> EdDSA, mat |-> "llamas"]
KeyRot13 == [kid |-> "chartreuse", alg |-> Rot13, mat |-> "alpacas"]

SignKeys == {Key1, Key2, KeyRot13}
KeySets == {{Key1}, {Key1, Key2}}
Contexts == {"live", "cancelled"}

\* Field names a presented signature may list beyond those that were signed.
ExtraFields == {EnvNamespacePrefix \o VarB, s_qux}

\* The signatures presented to Verify: the one Sign returned, or that one
\* with a further name in its SignedFields.
PresentedSignatures(sig) ==
    {sig} \cup {[sig EXCEPT !.SignedFields = sortStrings(sig.SignedFields \o <<x>>)] :
                   x \in ExtraFields \ Range(sig.SignedFields)}

CanonIdle ==
    /\ cAlg = <<>> /\ cV1 = <<>> /\ cV2 = <<>>
    /\ cP1 = <<>> /\ cP2 = <<>> /\ cDone = FALSE

SignIdle ==
    /\ signed = FALSE /\ sKey = Key1 /\ sObj = testFields(EmptyMap)
    /\ sObjPost = testFields(EmptyMap) /\ sEnv = EmptyMap /\ sCtx = "live"
    /\ sValues = <<>> /\ sRes = [err |-> "", sig |-> NoSignature]
    /\ verified = FALSE /\ vSig = NoSignature /\ vKeys = {} /\ vObj = testFields(EmptyMap)
    /\ vEnv = EmptyMap /\ vCtx = "live" /\ vValues = <<>> /\ vLogged = 0 /\ vErr = ""

\* A key as Validate sees it: whether key.Validate() accepts it, its key
\* type, whether it has an "alg" field, and key.Algorithm(): the kind of
\* algorithm value ("sig" a jwa.SignatureAlgorithm, "enc" a key encryption
\* algorithm, "invalid" a jwa.InvalidKeyAlgorithm) and its name.
JwkKey(valid, kty, hasAlg, algKind, alg) ==
    [valid |-> valid, kty |-> kty, hasAlg |-> hasAlg, algKind |-> algKind, alg |-> alg]

KeyIdle ==
    /\ kDone = FALSE /\ kErr = ""
    /\ kKey = JwkKey(TRUE, "RSA", FALSE, "invalid", "")

StepsIdle ==
    /\ pDone = FALSE /\ pEntry = "" /\ pKey = Key1 /\ pEnv = EmptyMap
    /\ pBefore = <<>> /\ pSteps = <<>> /\ pErr = <<>>

\* No Env is in use.
EnvIdle ==
    /\ eNil = TRUE /\ eCaseInsensitive = FALSE /\ eEnv = <<>> /\ eSets = <<>>
    /\ eGetKey = <<>> /\ eGetAfter = 0
    /\ eGot = [called |-> FALSE, v |-> <<>>, found |-> FALSE]

\* No pipeline is being interpolated.
InterpIdle ==
    /\ iDone = FALSE /\ iCaseInsensitive = FALSE /\ iRuntime = <<>>
    /\ iEnvIn = <<>> /\ iStepIn = <<>> /\ iEnvOut = <<>> /\ iStepOut = <<>>
    /\ iMerged = <<>> /\ iErr = ""

\* No document is being parsed.
DocIdle ==
    /\ dDone = FALSE /\ dTopLevelSequence = FALSE /\ dNodes = <<>>
    /\ dDispatched = <<>> /\ dNil = TRUE /\ dSteps = <<>> /\ dErr = "nil" /\ dKinds = <<>>

\* No plugin source is being normalised.
PluginIdle ==
    /\ gSource = <<>> /\ gCalls = 0 /\ gFirst = <<>> /\ gSecond = <<>>

\* No mapping is being resolved.
MergeIdle ==
    /\ mExplicit = <<>> /\ mAliases = <<>> /\ mMergeFirst = FALSE
    /\ mSeqDone = FALSE /\ mSeqOut = <<>> /\ mRepDone = FALSE /\ mRepOut = <<>>

\* No cache is being decoded.
CacheIdle ==
    /\ hDone = FALSE /\ hSrc = <<>> /\ hPaths = <<>> /\ hRemaining = {} /\ hErr = ""

\* No ordered map is in use.
OrderedIdle ==
    /\ oItems = <<>> /\ oCalls = <<>>

\* No signature is being presented.
TamperIdle ==
    /\ tSigned = FALSE /\ tKey = Key1 /\ tObj = testFields(EmptyMap)
    /\ tObjPost = testFields(EmptyMap) /\ tSignEnv = EmptyMap
    /\ tRes = [err |-> "", sig |-> NoSignature] /\ tVerified = 0
    /\ tSig = NoSignature /\ tKeyMaterial = [kind |-> "set", keys |-> {}, signer |-> [kid |-> "", alg |-> <<>>, mat |-> ""]] /\ tVerObj = testFields(EmptyMap)
    /\ tEnv1 = EmptyMap /\ tErr1 = "" /\ tEnv2 = EmptyMap /\ tErr2 = ""

\* No Env is being constructed.
NewIdle ==
    /\ nDone = FALSE /\ nGoos = "" /\ nOpts = <<>> /\ nEnv = <<>>
    /\ nCaseInsensitive = FALSE /\ nGetKey = <<>>
    /\ nGot = [called |-> FALSE, v |-> <<>>, found |-> FALSE]

\* parseYAML has not been called.
WasmIdle ==
    /\ wPromises = <<>> /\ wCrashed = FALSE

SignSideIdle == CanonIdle /\ SignIdle /\ StepsIdle /\ KeyIdle

ParseSideIdle == EnvIdle /\ InterpIdle /\ DocIdle /\ PluginIdle /\ MergeIdle /\ CacheIdle /\ OrderedIdle /\ TamperIdle /\ NewIdle /\ WasmIdle

\* Every part of the state other than the named one is idle.
OthersIdle(own) ==
    /\ SignSideIdle
    /\ IF own = "env" THEN TRUE ELSE EnvIdle
    /\ IF own = "interp" THEN TRUE ELSE InterpIdle
    /\ IF own = "doc" THEN TRUE ELSE DocIdle
    /\ IF own = "plugin" THEN TRUE ELSE PluginIdle
    /\ IF own = "merge" THEN TRUE ELSE MergeIdle
    /\ IF own = "cache" THEN TRUE ELSE CacheIdle
    /\ IF own = "ordered" THEN TRUE ELSE OrderedIdle
    /\ IF own = "tamper" THEN TRUE ELSE TamperIdle
    /\ IF own = "new" THEN TRUE ELSE NewIdle
    /\ IF own = "wasm" THEN TRUE ELSE WasmIdle

\* Every part of the state other than the named one stays as it is.
OthersUnchanged(own) ==
    /\ UNCHANGED signSideVars
    /\ IF own = "env" THEN TRUE ELSE UNCHANGED envVars
    /\ IF own = "interp" THEN TRUE ELSE UNCHANGED interpVars
    /\ IF own = "doc" THEN TRUE ELSE UNCHANGED docVars
    /\ IF own = "plugin" THEN TRUE ELSE UNCHANGED pluginVars
    /\ IF own = "merge" THEN TRUE ELSE UNCHANGED mergeVars
    /\ IF own = "cache" THEN TRUE ELSE UNCHANGED cacheVars
    /\ IF own = "ordered" THEN TRUE ELSE UNCHANGED orderedVars
    /\ IF own = "tamper" THEN TRUE ELSE UNCHANGED tamperVars
    /\ IF own = "new" THEN TRUE ELSE UNCHANGED newVars
    /\ IF own = "wasm" THEN TRUE ELSE UNCHANGED wasmVars

InitSign == CanonIdle /\ SignIdle /\ StepsIdle /\ KeyIdle /\ ParseSideIdle

\* One call of Sign.
DoSign ==
    /\ ~signed
    /\ \E key \in SignKeys, sf \in Objects, env \in Envs, ctx \in Contexts,
          order \in MapOrders :
          LET r == Sign(ctx, key, sf, env, order)
          IN  /\ sKey' = key
              /\ sObj' = sf
              /\ sObjPost' = r.post
              /\ sEnv' = env
              /\ sCtx' = ctx
              /\ sValues' = r.values
              /\ sRes' = [err |-> r.err, sig |-> r.sig]
    /\ signed' = TRUE
    /\ UNCHANGED <<canonVars, verifyVars, stepsVars, keyVars, parseSideVars>>

\* One call of Verify, on the signature Sign returned or a variation of it.
DoVerify ==
    /\ signed /\ sRes.err = "" /\ ~verified
    /\ \E s \in PresentedSignatures(sRes.sig), keySet \in KeySets,
          sf \in Objects \cup {sObjPost}, env \in Envs, ctx \in Contexts :
          LET r == Verify(ctx, s, keySet, sf, env)
          IN  /\ vSig' = s
              /\ vKeys' = keySet
              /\ vObj' = sf
              /\ vEnv' = env
              /\ vCtx' = ctx
              /\ vValues' = r.values
              /\ vErr' = r.err
              /\ vLogged' \in ThumbprintsLogged(ctx, keySet)
    /\ verified' = TRUE
    /\ UNCHANGED <<canonVars, signVars, stepsVars, keyVars, parseSideVars>>

NextSign == DoSign \/ DoVerify

SpecSign == InitSign /\ [][NextSign]_vars

-----------------------------------------------------------------------------
(* SpecPresent: a signature is made by Sign and presented to Verify as it  *)
(* is or altered, with a key set or a signer, and then once more with      *)
(* another env.                                                            *)

\* crypto.Signer keys: one that reports ES256 and one that reports EdDSA.
SignerES256 == [kid |-> "", alg |-> ES256Name, mat |-> "p256"]
SignerEdDSA == [kid |-> "", alg |-> EdDSA, mat |-> "ed25519"]

Signers == {SignerES256, SignerEdDSA}

PresentKeys == {Key1, Key2} \cup Signers

PresentObjects ==
    {testFields((s_foo :> Str(s_bar)) @@ (s_qux :> Str(s_zap))),
     testFields(EmptyMap),
     Step(CmdA, NilVal, NilVal, NilVal),
     Step(CmdA, MapVal(VarA :> Val1), NilVal, NilVal),
     Step(CmdB, NilVal, NilVal, NilVal)}

KeyMaterials ==
    {KeySetMaterial({Key1}), KeySetMaterial({Key1, Key2})}
    \cup {SignerMaterial(k) : k \in Signers}

AlgorithmNames == {HS256Name, EdDSA, ES256Name, <<>>}

\* The signature as Sign returned it, with no signed fields, or with
\* another Algorithm.
AlteredSignatures(sig) ==
    {sig, [sig EXCEPT !.SignedFields = <<>>]}
    \cup {[sig EXCEPT !.Algorithm = a] : a \in AlgorithmNames \ {sig.Algorithm}}

InitPresent == OthersIdle("tamper") /\ TamperIdle

\* One call of Sign.
DoSignOnce ==
    /\ ~tSigned
    /\ \E key \in PresentKeys, sf \in PresentObjects, env \in Envs :
          LET r == Sign("live", key, sf, env, "ascending")
          IN  /\ tKey' = key
              /\ tObj' = sf
              /\ tObjPost' = r.post
              /\ tSignEnv' = env
              /\ tRes' = [err |-> r.err, sig |-> r.sig]
    /\ tSigned' = TRUE
    /\ UNCHANGED <<tVerified, tSig, tKeyMaterial, tVerObj, tEnv1, tErr1, tEnv2, tErr2>>
    /\ OthersUnchanged("tamper")

\* One call of Verify on what Sign returned (the signature of a failed Sign
\* is the empty one), as it is or altered.
DoVerifyPresented ==
    /\ tSigned /\ tVerified = 0
    /\ \E s \in AlteredSignatures(tRes.sig), km \in KeyMaterials,
          sf \in {tObjPost, Step(CmdB, NilVal, NilVal, NilVal)}, env \in Envs :
          /\ tSig' = s
          /\ tKeyMaterial' = km
          /\ tVerObj' = sf
          /\ tEnv1' = env
          /\ tErr1' = VerifyAny("live", s, km, sf, env).err
    /\ tVerified' = 1
    /\ UNCHANGED <<tSigned, tKey, tObj, tObjPost, tSignEnv, tRes, tEnv2, tErr2>>
    /\ OthersUnchanged("tamper")

\* A second call of Verify: the same signature, object and keys, and an
\* env of its own.
DoVerifyOtherEnv ==
    /\ tVerified = 1
    /\ \E env \in Envs :
          /\ tEnv2' = env
          /\ tErr2' = VerifyAny("live", tSig, tKeyMaterial, tVerObj, env).err
    /\ tVerified' = 2
    /\ UNCHANGED <<tSigned, tKey, tObj, tObjPost, tSignEnv, tRes, tSig,
                   tKeyMaterial, tVerObj, tEnv1, tErr1>>
    /\ OthersUnchanged("tamper")

NextPresent == DoSignOnce \/ DoVerifyPresented \/ DoVerifyOtherEnv

SpecPresent == InitPresent /\ [][NextPresent]_vars

-----------------------------------------------------------------------------
(* SignSteps and SignPipeline.  A step is a record [kind, Command,         *)
(* Plugins, Signature, Steps]: kind "command", "wait", "group" (Steps its  *)
(* nested steps) or "unknown".  An error is the chain of errors that       *)
(* fmt.Errorf("...: %w", err) builds, outermost first.                     *)

CommandStep(command, plugins, signature) ==
    [kind |-> "command", Command |-> command, Plugins |-> plugins,
     Signature |-> signature, Steps |-> <<>>]
WaitStep ==
    [kind |-> "wait", Command |-> <<>>, Plugins |-> NilVal,
     Signature |-> NoSignature, Steps |-> <<>>]
InputStep ==
    [kind |-> "input", Command |-> <<>>, Plugins |-> NilVal,
     Signature |-> NoSignature, Steps |-> <<>>]
TriggerStep ==
    [kind |-> "trigger", Command |-> <<>>, Plugins |-> NilVal,
     Signature |-> NoSignature, Steps |-> <<>>]
UnknownStep ==
    [kind |-> "unknown", Command |-> <<>>, Plugins |-> NilVal,
     Signature |-> NoSignature, Steps |-> <<>>]
GroupStep(steps) ==
    [kind |-> "group", Command |-> <<>>, Plugins |-> NilVal,
     Signature |-> NoSignature, Steps |-> steps]

errSigningRefusedUnknownStepType ==
    "refusing to sign pipeline containing a step of unknown type"

\* WrapOpaque: fmt.Errorf("...: %v", err), which keeps the text only.
WrapOpaque(msg, err) == <<msg>>

\* fmt.Errorf(msg + ": %w", err)
Wrap(msg, err) == <<msg>> \o err

\* errors.Is(err, target)
errorsIs(err, target) == \E i \in 1..Len(err) : err[i] = target

\* KeepSignature: the step as it was, the new signature dropped.
KeepSignature(step, sig) == step

\* step.Signature = sig
SetSignature(step, sig) == [step EXCEPT !.Signature = sig]

\* stepWithInvariants := &CommandStepWithInvariants{CommandStep: *step, RepositoryURL: repoURL}
StepWithInvariants(step, repoURL) ==
    CommandStepWithInvariants(step.Command, NilVal, step.Plugins, NilVal, repoURL)

\* SignSteps adds signatures to each command step (and recursively to any
\* command steps that are within group steps).  The steps are mutated
\* directly, so an error part-way through may leave some steps un-signed.
\* The result is the error and the steps as the call leaves them.
RECURSIVE SignStepsFrom(_, _, _, _, _, _)
SignStepsFrom(s, i, key, repoURL, env, order) ==
    IF i > Len(s) THEN [err |-> <<>>, steps |-> s]
    ELSE LET step == s[i]
         IN  CASE step.kind = "command" ->
                    LET r == Sign("live", key, StepWithInvariants(step, repoURL), env, order)
                    IN  IF r.err # ""
                        THEN [err |-> Wrap("signing step with command", <<r.err>>), steps |-> s]
                        ELSE SignStepsFrom([s EXCEPT ![i] = SetSignature(step, r.sig)],
                                           i + 1, key, repoURL, env, order)
               [] step.kind = "group" ->
                    LET r  == SignStepsFrom(step.Steps, 1, key, repoURL, env, order)
                        s2 == [s EXCEPT ![i].Steps = r.steps]
                    IN  IF r.err # <<>>
                        THEN [err |-> Wrap("signing group step", r.err), steps |-> s2]
                        ELSE SignStepsFrom(s2, i + 1, key, repoURL, env, order)
               [] step.kind = "unknown" ->
                    [err |-> <<errSigningRefusedUnknownStepType>>, steps |-> s]
               [] OTHER -> SignStepsFrom(s, i + 1, key, repoURL, env, order)

\* A traversal that goes on after a failure: every command step Sign accepts
\* is signed, whatever came before it.
RECURSIVE SignEveryStep(_, _, _, _, _)
SignEveryStep(s, key, repoURL, env, order) ==
    [i \in 1..Len(s) |->
        CASE s[i].kind = "command" ->
                LET r == Sign("live", key, StepWithInvariants(s[i], repoURL), env, order)
                IN  IF r.err # "" THEN s[i] ELSE SetSignature(s[i], r.sig)
          [] s[i].kind = "group" ->
                [s[i] EXCEPT !.Steps = SignEveryStep(s[i].Steps, key, repoURL, env, order)]
          [] OTHER -> s[i]]

SignStepsPastFailure(s, key, repoURL, env, order) ==
    [err |-> SignStepsFrom(s, 1, key, repoURL, env, order).err,
     steps |-> SignEveryStep(s, key, repoURL, env, order)]

SignSteps(s, key, repoURL, env, order) == SignStepsFrom(s, 1, key, repoURL, env, order)

\* SignPipeline adds signatures to each command step within a pipeline.
SignPipeline(s, key, repo, env, order) ==
    LET r == SignSteps(s, key, repo, env, order)
    IN  IF r.err # <<>>
        THEN [err |-> Wrap("signing steps", r.err), steps |-> r.steps]
        ELSE r

\* A signature left on a step by an earlier upload.
StaleSignature ==
    [Algorithm |-> HS256Name, SignedFields |-> <<s_command>>,
     Value |-> [alg |-> HS256Name, kid |-> "chartreuse", mat |-> "alpacas",
                payload |-> <<>>]]

\* Steps without nested steps: an unsigned command, a command carrying a
\* stale signature, a command whose plugin configuration cannot be encoded
\* (Sign fails on it), a wait step, an input step, a trigger step and a
\* step of unknown type.
LeafSteps ==
    {CommandStep(CmdA, NilVal, NoSignature),
     CommandStep(CmdB, NilVal, StaleSignature),
     CommandStep(CmdA, BadVal, NoSignature),
     WaitStep,
     InputStep,
     TriggerStep,
     UnknownStep}

\* The sequences of steps with n steps in all, nested steps included.
RECURSIVE StepsOfSize(_)
StepsOfSize(n) ==
    IF n = 0 THEN {<<>>}
    ELSE UNION {
           {<<first>> \o rest :
               first \in (IF k = 1 THEN LeafSteps ELSE {})
                         \cup {GroupStep(inner) : inner \in StepsOfSize(k - 1)},
               rest \in StepsOfSize(n - k)} : k \in 1..n}

Pipelines == UNION {StepsOfSize(n) : n \in 0..MaxNodes}

InitSteps ==
    /\ CanonIdle
    /\ SignIdle
    /\ KeyIdle
    /\ ParseSideIdle
    /\ pDone = FALSE
    /\ pEntry = ""
    /\ pKey \in {Key1, KeyRot13}
    /\ pEnv = (VarA :> Val1)
    /\ pBefore \in Pipelines
    /\ pSteps = pBefore
    /\ pErr = <<>>

\* One call of SignSteps.
DoSignSteps ==
    /\ ~pDone
    /\ \E order \in MapOrders :
          LET r == SignSteps(pSteps, pKey, RepoURL, pEnv, order)
          IN  pSteps' = r.steps /\ pErr' = r.err
    /\ pEntry' = "SignSteps"
    /\ pDone' = TRUE
    /\ UNCHANGED <<canonVars, signVars, verifyVars, keyVars, parseSideVars, pKey, pEnv, pBefore>>

\* One call of SignPipeline.
DoSignPipeline ==
    /\ ~pDone
    /\ \E order \in MapOrders :
          LET r == SignPipeline(pSteps, pKey, RepoURL, pEnv, order)
          IN  pSteps' = r.steps /\ pErr' = r.err
    /\ pEntry' = "SignPipeline"
    /\ pDone' = TRUE
    /\ UNCHANGED <<canonVars, signVars, verifyVars, keyVars, parseSideVars, pKey, pEnv, pBefore>>

NextSteps == DoSignSteps \/ DoSignPipeline

SpecSteps == InitSteps /\ [][NextSteps]_vars

-----------------------------------------------------------------------------
(* jwkutil.Validate.                                                       *)

ValidRSAAlgorithms == {"PS512"}
ValidECAlgorithms  == {"ES512"}
ValidOKPAlgorithms == {"EdDSA"}

ValidSigningAlgorithms ==
    ValidRSAAlgorithms \cup ValidECAlgorithms \cup ValidOKPAlgorithms

\* AnySigningAlgorithm: the per-key-type table replaced by the global list.
AnySigningAlgorithm(kty) == ValidSigningAlgorithms

\* ValidAlgsForKeyType[kty]; a key type without an entry gives no algorithm.
ValidAlgsForKeyType(kty) ==
    CASE kty = "RSA" -> {"PS512"}
      [] kty = "EC"  -> {"ES512"}
      [] kty = "OKP" -> {"EdDSA"}
      [] OTHER       -> {}

InvalidAlgorithms == {"HS256", "HS384", "HS512", "RS256", "RS384", "RS512"}

ErrKeyInvalid                            == "invalid key"
ErrKeyMissingAlg                         == "key is missing algorithm"
ErrUnsupportedKeyType                    == "unsupported key type"
ErrInvalidSigningAlgorithm               == "invalid signing algorithm"
ErrUnsupportedSigningAlgorithm           == "unsupported signing algorithm"
ErrUnsupportedSigningAlgorithmForKeyType == "unsupported signing algorithm for key type"

\* Validate takes a jwk and ensures that it's suitable for use as a key for
\* signing and verifying job signatures.  The result is the error ("" is nil).
Validate(key) ==
    IF ~key.valid THEN ErrKeyInvalid
    ELSE IF ~key.hasAlg THEN ErrKeyMissingAlg
    ELSE IF key.algKind # "sig" THEN ErrInvalidSigningAlgorithm
    ELSE IF key.alg \notin ValidSigningAlgorithms THEN ErrUnsupportedSigningAlgorithm
    ELSE IF key.kty \notin {"RSA", "EC", "oct", "OKP"} THEN ErrUnsupportedKeyType
    ELSE IF key.alg \notin ValidAlgsForKeyType(key.kty)
         THEN ErrUnsupportedSigningAlgorithmForKeyType
    ELSE ""

\* The key types of jwa, and one outside them.
KeyTypes == {"RSA", "EC", "OKP", "oct", "invalid"}

\* Names a key can carry as a signature algorithm: the ones the test
\* TestValidateJWKDisallows tries, and the rest of jwa's signature algorithms.
SignatureAlgorithmNames ==
    {"", "none", "foo", "bar", "baz"} \cup InvalidAlgorithms
    \cup {"PS256", "PS384", "PS512", "ES256", "ES384", "ES512", "ES256K", "EdDSA"}

KeyEncryptionAlgorithmNames == {"RSA-OAEP", "dir"}

JwkKeys ==
    {JwkKey(valid, kty, TRUE, "sig", alg) :
        valid \in BOOLEAN, kty \in KeyTypes, alg \in SignatureAlgorithmNames}
    \cup {JwkKey(valid, kty, TRUE, "enc", alg) :
        valid \in BOOLEAN, kty \in KeyTypes, alg \in KeyEncryptionAlgorithmNames}
    \cup {JwkKey(valid, kty, TRUE, "invalid", "bogus") :
        valid \in BOOLEAN, kty \in KeyTypes}
    \cup {JwkKey(valid, kty, FALSE, "invalid", "") :
        valid \in BOOLEAN, kty \in KeyTypes}

InitKey ==
    /\ CanonIdle
    /\ SignIdle
    /\ StepsIdle
    /\ ParseSideIdle
    /\ kDone = FALSE
    /\ kErr = ""
    /\ kKey \in JwkKeys

\* One call of Validate.
DoValidate ==
    /\ ~kDone
    /\ kErr' = Validate(kKey)
    /\ kDone' = TRUE
    /\ UNCHANGED <<canonVars, signVars, verifyVars, stepsVars, parseSideVars, kKey>>

NextKey == DoValidate

SpecKey == InitKey /\ [][NextKey]_vars

-----------------------------------------------------------------------------
(* package env: a map of environment variables whose keys may be           *)
(* case-insensitive.                                                       *)

\* unicode.ToUpper on one byte of an ASCII name
ToUpperChar(c) == IF c >= 97 /\ c <= 122 THEN c - 32 ELSE c

\* strings.ToUpper
ToUpper(s) == [i \in 1..Len(s) |-> ToUpperChar(s[i])]

\* KeepCase: the key as written, whatever the mode.
KeepCase(caseInsensitive, key) == key

\* func (e *Env) normaliseCase(key string) string
normaliseCase(caseInsensitive, key) ==
    IF caseInsensitive THEN ToUpper(key) ELSE key

\* func (e *Env) Set(key, value string): the map after the call.
EnvSet(env, caseInsensitive, key, value) ==
    LET k == normaliseCase(caseInsensitive, key)
    IN  [n \in (DOMAIN env) \cup {k} |-> IF n = k THEN value ELSE env[n]]

\* func (e *Env) Get(key string) (string, bool)
EnvGet(isNil, env, caseInsensitive, key) ==
    IF isNil THEN [called |-> TRUE, v |-> <<>>, found |-> FALSE]
    ELSE LET k == normaliseCase(caseInsensitive, key)
         IN  IF k \in DOMAIN env
             THEN [called |-> TRUE, v |-> env[k], found |-> TRUE]
             ELSE [called |-> TRUE, v |-> <<>>, found |-> FALSE]

\* Variable names: FOO, Foo, foo and BAR, and the values "u" and "l".
EnvNames == {<<70, 79, 79>>, <<70, 111, 111>>, <<102, 111, 111>>, <<66, 65, 82>>}
EnvValues == {<<117>>, <<108>>}

\* env.New(...): a fresh Env of either case mode, or no Env at all.
InitEnv ==
    /\ OthersIdle("env")
    /\ eNil \in BOOLEAN
    /\ eCaseInsensitive \in BOOLEAN
    /\ eEnv = <<>>
    /\ eSets = <<>>
    /\ eGetKey = <<>>
    /\ eGetAfter = 0
    /\ eGot = [called |-> FALSE, v |-> <<>>, found |-> FALSE]

\* e.Set(key, value) on an Env that is not nil.
DoEnvSet ==
    /\ ~eNil
    /\ Len(eSets) < MaxSets
    /\ \E key \in EnvNames, value \in EnvValues :
          /\ eEnv' = EnvSet(eEnv, eCaseInsensitive, key, value)
          /\ eSets' = Append(eSets, <<key, value>>)
    /\ UNCHANGED <<eNil, eCaseInsensitive, eGetKey, eGetAfter, eGot>>
    /\ OthersUnchanged("env")

\* e.Get(key)
DoEnvGet ==
    /\ \E key \in EnvNames :
          /\ eGetKey' = key
          /\ eGetAfter' = Len(eSets)
          /\ eGot' = EnvGet(eNil, eEnv, eCaseInsensitive, key)
    /\ UNCHANGED <<eNil, eCaseInsensitive, eEnv, eSets>>
    /\ OthersUnchanged("env")

NextEnv == DoEnvSet \/ DoEnvGet

SpecEnv == InitEnv /\ [][NextEnv]_vars

-----------------------------------------------------------------------------
(* env.New and its options.  An option is a function applied to the Env    *)
(* under construction; New applies them in the order given.                *)

\* The most options one call of New is given.
MaxOptions == 2

\* The Env under construction: e.env and e.caseInsensitive.
EnvOf(env, caseInsensitive) == [env |-> env, caseInsensitive |-> caseInsensitive]

\* func CaseInsensitive() Options: e.caseInsensitive = true
CaseInsensitive(e) == [e EXCEPT !.caseInsensitive = TRUE]

\* func CaseSensitivityFromOS() Options:
\* e.caseInsensitive = runtime.GOOS == "windows"
CaseSensitivityFromOS(e, goos) == [e EXCEPT !.caseInsensitive = (goos = "windows")]

\* for k, v := range source { e.Set(k, v) } over the keys in the order given.
RECURSIVE SetEach(_, _, _, _)
SetEach(e, source, keys, i) ==
    IF i > Len(keys) THEN e
    ELSE SetEach([e EXCEPT !.env = EnvSet(e.env, e.caseInsensitive, keys[i], source[keys[i]])],
                 source, keys, i + 1)

\* func FromMap(source map[string]string) Options, applied to e; order is
\* the order in which the range visits the keys.
FromMapOption(e, source, order) ==
    SetEach(e, source, MapOrder(DOMAIN source, order), 1)

\* The options as values: the kind and, for FromMap, the source map.
OptCaseInsensitive == [kind |-> "CaseInsensitive", source |-> <<>>]
OptCaseSensitivityFromOS == [kind |-> "CaseSensitivityFromOS", source |-> <<>>]
OptFromMap(source) == [kind |-> "FromMap", source |-> source]

\* o(e) for one option.
ApplyOption(e, opt, goos, order) ==
    CASE opt.kind = "CaseInsensitive"       -> CaseInsensitive(e)
      [] opt.kind = "CaseSensitivityFromOS" -> CaseSensitivityFromOS(e, goos)
      [] opt.kind = "FromMap"               -> FromMapOption(e, opt.source, order)

\* for _, o := range opts { o(e) }
RECURSIVE NewFrom(_, _, _, _, _)
NewFrom(e, opts, i, goos, orders) ==
    IF i > Len(opts) THEN e
    ELSE NewFrom(ApplyOption(e, opts[i], goos, orders[i]), opts, i + 1, goos, orders)

\* func New(opts ...Options) *Env.  e := &Env{} is case-sensitive with no
\* map; a map that is still nil at the end is made empty, which reads the
\* same.
New(opts, goos, orders) == NewFrom(EnvOf(<<>>, FALSE), opts, 1, goos, orders)

\* Source maps: one variable of any name and value, two names that differ
\* only in case, and two unrelated names.
NewSources ==
    {(k :> v) : k \in EnvNames, v \in EnvValues}
    \cup {(<<102, 111, 111>> :> <<117>>) @@ (<<70, 79, 79>> :> <<108>>),
          (<<70, 111, 111>> :> <<117>>) @@ (<<66, 65, 82>> :> <<108>>)}

NewOptions ==
    {OptCaseInsensitive, OptCaseSensitivityFromOS} \cup {OptFromMap(s) : s \in NewSources}

OptionLists == UNION {[1..n -> NewOptions] : n \in 0..MaxOptions}

InitNew ==
    /\ OthersIdle("new")
    /\ NewIdle

\* One call of New, on either kind of build.
DoNew ==
    /\ ~nDone
    /\ \E opts \in OptionLists, goos \in {"windows", "linux"} :
          \E orders \in [1..Len(opts) -> {"ascending", "descending"}] :
             LET e == New(opts, goos, orders)
             IN  /\ nOpts' = opts
                 /\ nGoos' = goos
                 /\ nEnv' = e.env
                 /\ nCaseInsensitive' = e.caseInsensitive
    /\ nDone' = TRUE
    /\ UNCHANGED <<nGetKey, nGot>>
    /\ OthersUnchanged("new")

\* e.Get(key) on the Env New returned.
DoGetNew ==
    /\ nDone
    /\ \E key \in EnvNames :
          /\ nGetKey' = key
          /\ nGot' = EnvGet(FALSE, nEnv, nCaseInsensitive, key)
    /\ UNCHANGED <<nDone, nGoos, nOpts, nEnv, nCaseInsensitive>>
    /\ OthersUnchanged("new")

NextNew == DoNew \/ DoGetNew

SpecNew == InitNew /\ [][NextNew]_vars

-----------------------------------------------------------------------------
(* Interpolation: shell-style substitution of $VAR, ${VAR} and ${VAR?} in  *)
(* a string against an Env; "$$" and "\$" stand for a literal "$".  The    *)
(* text is scanned once, left to right: what a substitution inserts is not *)
(* scanned again.                                                          *)

Dollar == <<36>>

IsIdentStart(c) == (c >= 65 /\ c <= 90) \/ (c >= 97 /\ c <= 122) \/ c = 95
IsIdentChar(c) == IsIdentStart(c) \/ (c >= 48 /\ c <= 57)

\* The index after the identifier that starts at s[i].
RECURSIVE IdentEnd(_, _)
IdentEnd(s, i) ==
    IF i <= Len(s) /\ IsIdentChar(s[i]) THEN IdentEnd(s, i + 1) ELSE i

\* The value a reference to name is replaced by: the variable's value, or
\* the empty string when the env has no such variable.
Lookup(env, caseInsensitive, name) ==
    EnvGet(FALSE, env, caseInsensitive, name).v

\* interpolate.Interpolate(env, s): [err, out].
RECURSIVE InterpolateFrom(_, _, _, _)
InterpolateFrom(env, caseInsensitive, s, i) ==
    IF i > Len(s) THEN [err |-> "", out |-> <<>>]
    ELSE LET c    == s[i]
             next == IF i < Len(s) THEN s[i + 1] ELSE 0
             Then(text, j) ==
                 LET r == InterpolateFrom(env, caseInsensitive, s, j)
                 IN  IF r.err # "" THEN r ELSE [err |-> "", out |-> text \o r.out]
         IN  CASE (c = 92 \/ c = 36) /\ next = 36 -> Then(Dollar, i + 2)
               [] c = 36 /\ i = Len(s) -> Then(Dollar, i + 1)
               [] c = 36 /\ next = 123 ->
                    LET e    == IdentEnd(s, i + 2)
                        name == SubSeq(s, i + 2, e - 1)
                    IN  IF e = i + 2 \/ e > Len(s)
                        THEN [err |-> "parse error", out |-> <<>>]
                        ELSE IF s[e] = 125
                        THEN Then(Lookup(env, caseInsensitive, name), e + 1)
                        ELSE IF s[e] = 63 /\ e < Len(s) /\ s[e + 1] = 125
                        THEN IF EnvGet(FALSE, env, caseInsensitive, name).found
                             THEN Then(Lookup(env, caseInsensitive, name), e + 2)
                             ELSE [err |-> "variable not set", out |-> <<>>]
                        ELSE [err |-> "parse error", out |-> <<>>]
               [] c = 36 /\ IsIdentStart(next) ->
                    LET e == IdentEnd(s, i + 1)
                    IN  Then(Lookup(env, caseInsensitive, SubSeq(s, i + 1, e - 1)), e)
               [] c = 36 -> [err |-> "parse error", out |-> <<>>]
               [] OTHER -> Then(<<c>>, i + 1)

Interpolate(env, caseInsensitive, s) == InterpolateFrom(env, caseInsensitive, s, 1)

-----------------------------------------------------------------------------
(* Pipeline.Interpolate.  The pipeline's env block is an ordered map: a    *)
(* sequence of items [k, v, deleted], where a deleted item keeps its slot  *)
(* and is skipped by Range.                                                *)

Item(k, v) == [k |-> k, v |-> v, deleted |-> FALSE]

\* ordered.MapFromItems
MapFromItems(pairs) == [i \in 1..Len(pairs) |-> Item(pairs[i][1], pairs[i][2])]

\* The items of an ordered map that Range visits, as <<key, value>> pairs.
RECURSIVE LiveItems(_)
LiveItems(items) ==
    IF items = <<>> THEN <<>>
    ELSE (IF Head(items).deleted THEN <<>> ELSE <<<<Head(items).k, Head(items).v>>>>)
         \o LiveItems(Tail(items))

\* KeepKey: the item gets the new value and keeps its old key.
KeepKey(items, idx, new, value) == [items EXCEPT ![idx].v = value]

\* Map.Replace(old, new, value), old being the key of item idx: the item
\* keeps its slot and gets the new key and value; another item that already
\* has the new key is deleted.
Replace(items, idx, new, value) ==
    [i \in 1..Len(items) |->
        IF i = idx THEN Item(new, value)
        ELSE IF items[i].k = new /\ ~items[i].deleted
        THEN [items[i] EXCEPT !.deleted = TRUE]
        ELSE items[i]]

\* SetAlways: the pipeline variable is put into the env whether or not the
\* env has it.
SetAlways(env, caseInsensitive, key, value) == EnvSet(env, caseInsensitive, key, value)

\* if _, exists := runtimeEnv.Get(intk); !exists { runtimeEnv.Set(intk, intv) }
SetIfAbsent(env, caseInsensitive, key, value) ==
    IF EnvGet(FALSE, env, caseInsensitive, key).found
    THEN env
    ELSE EnvSet(env, caseInsensitive, key, value)

\* interpolateEnvBlock: Range over the env block in declaration order; the
\* key and the value of each entry are interpolated against the env as it is
\* then, the entry is rewritten, and the variable is put into the env if the
\* env does not have it.  The result is [err, items, env].
RECURSIVE interpolateEnvBlockFrom(_, _, _, _)
interpolateEnvBlockFrom(items, i, env, caseInsensitive) ==
    IF i > Len(items) THEN [err |-> "", items |-> items, env |-> env]
    ELSE IF items[i].deleted
    THEN interpolateEnvBlockFrom(items, i + 1, env, caseInsensitive)
    ELSE LET intk == Interpolate(env, caseInsensitive, items[i].k)
             intv == Interpolate(env, caseInsensitive, items[i].v)
         IN  IF intk.err # "" THEN [err |-> intk.err, items |-> items, env |-> env]
             ELSE IF intv.err # "" THEN [err |-> intv.err, items |-> items, env |-> env]
             ELSE interpolateEnvBlockFrom(
                      Replace(items, i, intk.out, intv.out), i + 1,
                      SetIfAbsent(env, caseInsensitive, intk.out, intv.out),
                      caseInsensitive)

\* interpolateAgainstRuntimeOnly: every entry is interpolated against the
\* env as it was given, and the env is filled afterwards.
RECURSIVE interpolateAgainstRuntimeOnlyFrom(_, _, _, _, _)
interpolateAgainstRuntimeOnlyFrom(items, i, env, given, caseInsensitive) ==
    IF i > Len(items) THEN [err |-> "", items |-> items, env |-> env]
    ELSE LET intk == Interpolate(given, caseInsensitive, items[i].k)
             intv == Interpolate(given, caseInsensitive, items[i].v)
         IN  interpolateAgainstRuntimeOnlyFrom(
                 Replace(items, i, intk.out, intv.out), i + 1,
                 SetIfAbsent(env, caseInsensitive, intk.out, intv.out),
                 given, caseInsensitive)

interpolateAgainstRuntimeOnly(items, env, caseInsensitive) ==
    interpolateAgainstRuntimeOnlyFrom(items, 1, env, env, caseInsensitive)

interpolateEnvBlock(items, env, caseInsensitive) ==
    interpolateEnvBlockFrom(items, 1, env, caseInsensitive)

\* A step: the fields of BaseStep and the command of a command step.
PipelineStep(key, dependsOn, remaining, command) ==
    [Key |-> key, DependsOn |-> dependsOn, RemainingFields |-> remaining,
     Command |-> command]

\* interpolateSlice over a slice of strings: [err, out].
RECURSIVE interpolateSlice(_, _, _)
interpolateSlice(env, caseInsensitive, ss) ==
    IF ss = <<>> THEN [err |-> "", out |-> <<>>]
    ELSE LET h == Interpolate(env, caseInsensitive, Head(ss))
             r == interpolateSlice(env, caseInsensitive, Tail(ss))
         IN  IF h.err # "" THEN [err |-> h.err, out |-> <<>>]
             ELSE IF r.err # "" THEN r
             ELSE [err |-> "", out |-> <<h.out>> \o r.out]

\* interpolateMap over a map of at most one string entry, keys and values
\* both transformed: [err, out].
interpolateMap(env, caseInsensitive, m) ==
    IF DOMAIN m = {} THEN [err |-> "", out |-> m]
    ELSE LET k    == CHOOSE x \in DOMAIN m : TRUE
             intk == Interpolate(env, caseInsensitive, k)
             intv == Interpolate(env, caseInsensitive, m[k])
         IN  IF intk.err # "" THEN [err |-> intk.err, out |-> m]
             ELSE IF intv.err # "" THEN [err |-> intv.err, out |-> m]
             ELSE [err |-> "", out |-> (intk.out :> intv.out)]

\* StepInterpolateKeepKey: the step's key is transformed and the result is
\* not stored.
StepInterpolateKeepKey(env, caseInsensitive, step) ==
    LET d == interpolateSlice(env, caseInsensitive, step.DependsOn)
        r == interpolateMap(env, caseInsensitive, step.RemainingFields)
        c == Interpolate(env, caseInsensitive, step.Command)
    IN  IF d.err # "" \/ r.err # "" \/ c.err # ""
        THEN [err |-> "interpolation failed", step |-> step]
        ELSE [err |-> "", step |-> PipelineStep(step.Key, d.out, r.out, c.out)]

\* func (b *BaseStep) interpolate(tf stringTransformer) error, followed by
\* the command of the step: [err, step].
StepInterpolate(env, caseInsensitive, step) ==
    LET k == Interpolate(env, caseInsensitive, step.Key)
        d == interpolateSlice(env, caseInsensitive, step.DependsOn)
        r == interpolateMap(env, caseInsensitive, step.RemainingFields)
        c == Interpolate(env, caseInsensitive, step.Command)
    IN  IF k.err # "" THEN [err |-> k.err, step |-> step]
        ELSE IF d.err # "" THEN [err |-> d.err, step |-> [step EXCEPT !.Key = k.out]]
        ELSE IF r.err # ""
        THEN [err |-> r.err, step |-> [step EXCEPT !.Key = k.out, !.DependsOn = d.out]]
        ELSE IF c.err # ""
        THEN [err |-> c.err,
              step |-> PipelineStep(k.out, d.out, r.out, step.Command)]
        ELSE [err |-> "", step |-> PipelineStep(k.out, d.out, r.out, c.out)]

\* func (p *Pipeline) Interpolate(runtimeEnv *env.Env) error: the env block
\* first, then the steps against the env it leaves.  The result is
\* [err, items, env, step].
PipelineInterpolate(items, step, env, caseInsensitive) ==
    LET b == interpolateEnvBlock(items, env, caseInsensitive)
    IN  IF b.err # ""
        THEN [err |-> b.err, items |-> b.items, env |-> b.env, step |-> step]
        ELSE LET s == StepInterpolate(b.env, caseInsensitive, step)
             IN  [err |-> s.err, items |-> b.items, env |-> b.env, step |-> s.step]

\* env.FromMap(source): every pair of source is Set, in some order.
RECURSIVE FromMap(_, _)
FromMap(source, caseInsensitive) ==
    IF DOMAIN source = {} THEN <<>>
    ELSE LET k    == CHOOSE x \in DOMAIN source : TRUE
             rest == [n \in (DOMAIN source) \ {k} |-> source[n]]
         IN  EnvSet(FromMap(rest, caseInsensitive), caseInsensitive, k, source[k])

\* Variable names A, a, B and C; a reference ${name}.
NameA == <<65>>
NameLowerA == <<97>>
NameB == <<66>>
NameC == <<67>>
Ref(name) == <<36, 123>> \o name \o <<125>>

\* Runtime envs: none; A=r; a=r; A=r with B=A (B names the variable A); and
\* A=r with B=${A} (a value that itself holds a reference).  No two names of
\* one source differ only in case.
RuntimeSources ==
    {<<>>,
     (NameA :> <<114>>),
     (NameLowerA :> <<114>>),
     (NameA :> <<114>>) @@ (NameB :> NameA),
     (NameA :> <<114>>) @@ (NameB :> Ref(NameA))}

\* Keys of pipeline env entries: A, a and ${B}; values: p, ${A} and q${a}.
PipelineEnvKeys == {NameA, NameLowerA, Ref(NameB)}
PipelineEnvValues == {<<112>>, Ref(NameA), <<113>> \o Ref(NameLowerA)}

\* The env blocks with n entries: the keys of one block differ.
RECURSIVE EnvBlocksOfLen(_)
EnvBlocksOfLen(n) ==
    IF n = 0 THEN {<<>>}
    ELSE LET longer == {Append(b, <<k, v>>) :
                           b \in EnvBlocksOfLen(n - 1),
                           k \in PipelineEnvKeys,
                           v \in PipelineEnvValues}
         IN  {b \in longer : \A i \in 1..(n - 1) : b[i][1] # b[n][1]}

EnvBlocks == UNION {EnvBlocksOfLen(n) : n \in 0..MaxEnvEntries}

\* Texts of a step's string fields: ${A}, ${a}, $${A}, ${B}, ${C?}, "$A." and
\* "$." (which does not parse).
StepTexts ==
    {Ref(NameA), Ref(NameLowerA), <<36>> \o Ref(NameA), Ref(NameB),
     <<36, 123, 67, 63, 125>>, <<36, 65, 46>>, <<36, 46>>}

\* A step that holds the text in each of its string fields.
StepOfText(s) == PipelineStep(s, <<s>>, (s :> s), s)

InitInterp ==
    /\ OthersIdle("interp")
    /\ iDone = FALSE
    /\ iCaseInsensitive \in BOOLEAN
    /\ \E source \in RuntimeSources : iRuntime = FromMap(source, iCaseInsensitive)
    /\ iEnvIn \in EnvBlocks
    /\ \E s \in StepTexts : iStepIn = StepOfText(s)
    /\ iEnvOut = iEnvIn
    /\ iStepOut = iStepIn
    /\ iMerged = iRuntime
    /\ iErr = ""

\* One call of p.Interpolate(runtimeEnv).
DoInterpolate ==
    /\ ~iDone
    /\ LET r == PipelineInterpolate(MapFromItems(iEnvIn), iStepIn, iRuntime, iCaseInsensitive)
       IN  /\ iErr' = r.err
           /\ iEnvOut' = LiveItems(r.items)
           /\ iStepOut' = r.step
           /\ iMerged' = r.env
    /\ iDone' = TRUE
    /\ UNCHANGED <<iCaseInsensitive, iRuntime, iEnvIn, iStepIn>>
    /\ OthersUnchanged("interp")

NextInterp == DoInterpolate

SpecInterp == InitInterp /\ [][NextInterp]_vars

-----------------------------------------------------------------------------
(* Step dispatch and Parse.  A step node of the document is a record       *)
(* [kind, text, keys, type, env]: kind "scalar" (text its value) or        *)
(* "mapping" (keys its keys other than "type" and "env"; type the value of *)
(* its "type" key, "none" without one; env "absent", "strings" for a       *)
(* mapping of strings or "nested" for a mapping that holds a mapping).  A  *)
(* step is a record [variant, contents], contents the node it came from.   *)

\* Most keys (other than "type" and "env") of a step mapping.
MaxKeys == 2

\* Most step nodes of a document.
MaxStepNodes == 4

ScalarNode(text) ==
    [kind |-> "scalar", text |-> text, keys |-> {}, type |-> "none", env |-> "absent"]

MappingNode(keys, type, env) ==
    [kind |-> "mapping", text |-> "", keys |-> keys, type |-> type, env |-> env]

ParsedStep(variant, node) == [variant |-> variant, contents |-> node]

\* The step for a scalar node: [err, variant].
NewScalarStep(text) ==
    CASE text \in {"wait", "waiter"} -> [err |-> "", variant |-> "Wait"]
      [] text \in {"block", "input"} -> [err |-> "", variant |-> "Input"]
      [] OTHER -> [err |-> "UnknownStepType", variant |-> "Unknown"]

\* stepByTypeWithoutAliases: only the names of the variants are known.
stepByTypeWithoutAliases(sType) ==
    CASE sType = "input" -> [err |-> "", variant |-> "Input"]
      [] sType = "wait" -> [err |-> "", variant |-> "Wait"]
      [] sType = "command" -> [err |-> "", variant |-> "Command"]
      [] sType = "trigger" -> [err |-> "", variant |-> "Trigger"]
      [] sType = "group" -> [err |-> "", variant |-> "Group"]
      [] OTHER -> [err |-> "UnknownStepType", variant |-> "Unknown"]

\* The step for the value of a "type" key: [err, variant].
stepByType(sType) ==
    CASE sType \in {"block", "input", "manual"} -> [err |-> "", variant |-> "Input"]
      [] sType \in {"wait", "waiter"} -> [err |-> "", variant |-> "Wait"]
      [] sType \in {"command", "script"} -> [err |-> "", variant |-> "Command"]
      [] sType = "trigger" -> [err |-> "", variant |-> "Trigger"]
      [] sType = "group" -> [err |-> "", variant |-> "Group"]
      [] OTHER -> [err |-> "UnknownStepType", variant |-> "Unknown"]

\* The step for the keys of a mapping: [err, variant]; the first row of the
\* table that matches decides.
stepByKeyInference(keys) ==
    CASE "command" \in keys \/ "commands" \in keys -> [err |-> "", variant |-> "Command"]
      [] "wait" \in keys -> [err |-> "", variant |-> "Wait"]
      [] "block" \in keys \/ "input" \in keys -> [err |-> "", variant |-> "Input"]
      [] "trigger" \in keys -> [err |-> "", variant |-> "Trigger"]
      [] "group" \in keys \/ "steps" \in keys -> [err |-> "", variant |-> "Group"]
      [] OTHER -> [err |-> "StepTypeInference", variant |-> "Unknown"]

\* The step for a mapping node: by its keys, else by its "type" key.
stepFromMap(o) ==
    LET byKey == stepByKeyInference(o.keys)
    IN  IF byKey.err = "" THEN byKey
        ELSE IF o.type # "none" THEN stepByType(o.type)
        ELSE byKey

\* Decoding the mapping into the step of the chosen variant: the env of a
\* command step is a mapping of strings.
Decode(variant, o) ==
    IF variant = "Command" /\ o.env = "nested" THEN "IncompatibleTypes" ELSE ""

\* One step node: [step, warn, dispatched], warn "" when the node is a step
\* of a known variant that decodes, dispatched the variant chosen before
\* decoding.
unmarshalStep(o) ==
    IF o.kind = "scalar"
    THEN LET r == NewScalarStep(o.text)
         IN  [step |-> ParsedStep(r.variant, o), warn |-> r.err,
              dispatched |-> r.variant]
    ELSE LET r == stepFromMap(o)
         IN  IF r.err # ""
             THEN [step |-> ParsedStep("Unknown", o), warn |-> r.err,
                   dispatched |-> "Unknown"]
             ELSE IF Decode(r.variant, o) # ""
             THEN [step |-> ParsedStep("Unknown", o), warn |-> Decode(r.variant, o),
                   dispatched |-> r.variant]
             ELSE [step |-> ParsedStep(r.variant, o), warn |-> "",
                   dispatched |-> r.variant]

\* The steps of the nodes from the i-th on, and the warnings met:
\* [steps, warns].
RECURSIVE unmarshalStepsFrom(_, _)
unmarshalStepsFrom(nodes, i) ==
    IF i > Len(nodes) THEN [steps |-> <<>>, warns |-> <<>>, dispatched |-> <<>>]
    ELSE LET r == unmarshalStep(nodes[i])
             rest == unmarshalStepsFrom(nodes, i + 1)
         IN  [steps |-> <<r.step>> \o rest.steps,
              dispatched |-> <<r.dispatched>> \o rest.dispatched,
              warns |-> (IF r.warn = "" THEN <<>> ELSE <<r.warn>>) \o rest.warns]

\* unmarshalStepsSkippingUnknown: a node that is no step of a known variant
\* leaves a warning and no step.
RECURSIVE unmarshalStepsSkippingUnknownFrom(_, _)
unmarshalStepsSkippingUnknownFrom(nodes, i) ==
    IF i > Len(nodes) THEN [steps |-> <<>>, warns |-> <<>>, dispatched |-> <<>>]
    ELSE LET r == unmarshalStep(nodes[i])
             rest == unmarshalStepsSkippingUnknownFrom(nodes, i + 1)
         IN  [steps |-> (IF r.warn = "" THEN <<r.step>> ELSE <<>>) \o rest.steps,
              dispatched |-> <<r.dispatched>> \o rest.dispatched,
              warns |-> (IF r.warn = "" THEN <<>> ELSE <<r.warn>>) \o rest.warns]

unmarshalStepsSkippingUnknown(nodes) == unmarshalStepsSkippingUnknownFrom(nodes, 1)

unmarshalSteps(nodes) == unmarshalStepsFrom(nodes, 1)

\* Parse: [nil, steps, err, kinds, dispatched].  A document that is a bare sequence of
\* step nodes is read as a mapping whose "steps" is the sequence.
Parse(topLevelSequence, nodes) ==
    LET r == unmarshalSteps(nodes)
    IN  [nil |-> FALSE, steps |-> r.steps,
         err |-> IF r.warns = <<>> THEN "nil" ELSE "warning",
         kinds |-> r.warns, dispatched |-> r.dispatched]

\* --- the documents drawn ---

InferenceKeys == {"command", "commands", "wait", "block", "input", "trigger", "group", "steps"}

OtherKeys == {"llama"}

TypeValues == {"none", "block", "input", "manual", "wait", "waiter", "command",
               "script", "trigger", "group", "mystery"}

ScalarTexts == {"wait", "waiter", "block", "input", "catawumpus"}

StepKeySets == {ks \in SUBSET (InferenceKeys \cup OtherKeys) : Cardinality(ks) <= MaxKeys}

StepNodes ==
    {ScalarNode(s) : s \in ScalarTexts}
    \cup {MappingNode(ks, ty, env) :
            ks \in StepKeySets, ty \in TypeValues, env \in {"absent", "strings", "nested"}}

\* The nodes of TestParserPreservesUnknownStepTypes, a scalar step and a
\* command step that decodes.
SequenceNodes ==
    {ScalarNode("catawumpus"), ScalarNode("wait"),
     MappingNode({"llama"}, "none", "absent"),
     MappingNode({}, "mystery", "absent"),
     MappingNode({"command"}, "none", "nested"),
     MappingNode({"command"}, "none", "strings")}

Documents ==
    {<<n>> : n \in StepNodes}
    \cup UNION {[1..n -> SequenceNodes] : n \in 0..MaxStepNodes}

InitParse ==
    /\ OthersIdle("doc")
    /\ dDone = FALSE
    /\ dTopLevelSequence \in BOOLEAN
    /\ dNodes \in Documents
    /\ dDispatched = <<>>
    /\ dNil = TRUE
    /\ dSteps = <<>>
    /\ dErr = "nil"
    /\ dKinds = <<>>

\* One call of Parse.
DoParse ==
    /\ ~dDone
    /\ LET r == Parse(dTopLevelSequence, dNodes)
       IN  /\ dNil' = r.nil
           /\ dSteps' = r.steps
           /\ dErr' = r.err
           /\ dKinds' = r.kinds
           /\ dDispatched' = r.dispatched
    /\ dDone' = TRUE
    /\ UNCHANGED <<dTopLevelSequence, dNodes>>
    /\ OthersUnchanged("doc")

NextParse == DoParse

SpecParse == InitParse /\ [][NextParse]_vars

-----------------------------------------------------------------------------
(* The parseYAML binding of the WASM build (wasm/main.go).  Each call      *)
(* returns a new Promise whose handler starts a goroutine; the goroutine   *)
(* parses the input, marshals the pipeline and invokes the callbacks of    *)
(* the promise.  A goroutine is modelled by its position: "parse",         *)
(* "marshal", "resolve", "done" or "panicked".                             *)

\* The most calls of parseYAML in one run.
MaxPromises == 3

\* An input text: YAML that does not parse, or the document it parses to.
MalformedInput == [malformed |-> TRUE, nodes |-> <<>>]
DocumentInput(nodes) == [malformed |-> FALSE, nodes |-> nodes]

\* p, err := pipeline.Parse(strings.NewReader(input)): no pipeline and an
\* error for YAML that does not parse; otherwise the pipeline, with a
\* warning when a step is of unknown type.
ParseReader(input) ==
    IF input.malformed THEN [nil |-> TRUE, err |-> "error"]
    ELSE LET r == Parse(TRUE, input.nodes)
         IN  [nil |-> r.nil, err |-> r.err]

\* reject.Invoke(errorObject), resolve.Invoke(output): the call is added to
\* the calls the promise's callbacks have had.
Invoke(promise, callback) == [promise EXCEPT !.calls = Append(@, callback)]

\* The outcomes of p.MarshalJSON(): it returns the JSON or an error; on a
\* nil pipeline it may also dereference p and panic.
MarshalOutcomes(promise) ==
    IF promise.nil THEN {"json", "error", "panic"} ELSE {"json", "error"}

\* promiseConstructor.New(handler): the handler runs and starts the
\* goroutine.
NewPromise(input) ==
    [input |-> input, pc |-> "parse", nil |-> FALSE, json |-> FALSE, calls |-> <<>>]

\* The first statements of the goroutine: Parse and, on an error, reject.
GoParse(promise) ==
    LET r == ParseReader(promise.input)
        q == [promise EXCEPT !.pc = "marshal", !.nil = r.nil]
    IN  IF r.err # "nil" THEN Invoke(q, "reject") ELSE q

\* json, err := p.MarshalJSON() and, on an error, reject.
GoMarshal(promise, outcome) ==
    CASE outcome = "json"  -> [promise EXCEPT !.pc = "resolve", !.json = TRUE]
      [] outcome = "error" -> Invoke([promise EXCEPT !.pc = "resolve", !.json = FALSE], "reject")
      [] outcome = "panic" -> [promise EXCEPT !.pc = "panicked"]

\* JSON.parse(string(json)) throws on the empty text a failed MarshalJSON
\* leaves, which panics in Call; otherwise resolve.Invoke(output).
GoResolve(promise) ==
    IF promise.json
    THEN Invoke([promise EXCEPT !.pc = "done"], "resolve")
    ELSE [promise EXCEPT !.pc = "panicked"]

\* The inputs: YAML that does not parse, an empty pipeline, a wait step and
\* a step of unknown type.
WasmInputs ==
    {MalformedInput, DocumentInput(<<>>), DocumentInput(<<ScalarNode("wait")>>),
     DocumentInput(<<ScalarNode("catawumpus")>>)}

InitWasm ==
    /\ OthersIdle("wasm")
    /\ WasmIdle

\* JavaScript calls parseYAML(input).
DoParseYAML ==
    /\ ~wCrashed
    /\ Len(wPromises) < MaxPromises
    /\ \E input \in WasmInputs : wPromises' = Append(wPromises, NewPromise(input))
    /\ UNCHANGED wCrashed
    /\ OthersUnchanged("wasm")

\* One goroutine runs up to the end of its first if statement.
DoGoParse ==
    /\ ~wCrashed
    /\ \E i \in 1..Len(wPromises) :
          /\ wPromises[i].pc = "parse"
          /\ wPromises' = [wPromises EXCEPT ![i] = GoParse(@)]
    /\ UNCHANGED wCrashed
    /\ OthersUnchanged("wasm")

\* One goroutine runs up to the end of its second if statement.
DoGoMarshal ==
    /\ ~wCrashed
    /\ \E i \in 1..Len(wPromises) :
          /\ wPromises[i].pc = "marshal"
          /\ \E outcome \in MarshalOutcomes(wPromises[i]) :
                /\ wPromises' = [wPromises EXCEPT ![i] = GoMarshal(@, outcome)]
                /\ wCrashed' = (outcome = "panic")
    /\ OthersUnchanged("wasm")

\* One goroutine runs its last two statements.
DoGoResolve ==
    /\ ~wCrashed
    /\ \E i \in 1..Len(wPromises) :
          /\ wPromises[i].pc = "resolve"
          /\ wPromises' = [wPromises EXCEPT ![i] = GoResolve(@)]
          /\ wCrashed' = ~wPromises[i].json
    /\ OthersUnchanged("wasm")

NextWasm == DoParseYAML \/ DoGoParse \/ DoGoMarshal \/ DoGoResolve

SpecWasm == InitWasm /\ [][NextWasm]_vars

-----------------------------------------------------------------------------
(* Plugin.FullSource: the source of a plugin in its long form.             *)

\* Longest plugin source drawn from SourceAlphabet.
MaxSourceLen == 3

\* "github.com/buildkite-plugins/"
DefaultDomainAndOrg ==
    <<103, 105, 116, 104, 117, 98, 46, 99, 111, 109, 47, 98, 117, 105,
      108, 100, 107, 105, 116, 101, 45, 112, 108, 117, 103, 105, 110,
      115, 47>>

\* "github.com/"
DefaultDomain ==
    <<103, 105, 116, 104, 117, 98, 46, 99, 111, 109, 47>>

\* "-buildkite-plugin"
PluginSuffix ==
    <<45, 98, 117, 105, 108, 100, 107, 105, 116, 101, 45, 112, 108, 117,
      103, 105, 110>>

\* The position of the first c in s, Len(s) + 1 without one.
RECURSIVE IndexFrom(_, _, _)
IndexFrom(s, c, i) ==
    IF i > Len(s) THEN i
    ELSE IF s[i] = c THEN i
    ELSE IndexFrom(s, c, i + 1)

Index(s, c) == IndexFrom(s, c, 1)

\* The number of c in s.
Count(s, c) == Cardinality({i \in 1..Len(s) : s[i] = c})

\* s begins with a path separator or a relative path: "/", "\" or ".".
LooksLikePath(s) == Len(s) > 0 /\ s[1] \in {47, 92, 46}

\* s begins with a URL scheme ("https://", "my:"), a drive prefix ("C:\")
\* or a VCS-style authority ("git@github.com:"): a ":" comes before any "/"
\* and any "#".
LooksLikeLocation(s) ==
    LET colon == Index(s, 58)
    IN  colon <= Len(s) /\ colon < Index(s, 47) /\ colon < Index(s, 35)

\* FullSourceAlwaysExpanding: a source of three segments or more has the
\* domain prepended and the suffix appended as well.
FullSourceAlwaysExpanding(s) ==
    IF LooksLikePath(s) \/ LooksLikeLocation(s) THEN s
    ELSE LET hash == Index(s, 35)
             name == SubSeq(s, 1, hash - 1)
             fragment == SubSeq(s, hash, Len(s))
         IN  IF Count(name, 47) = 0
             THEN DefaultDomainAndOrg \o name \o PluginSuffix \o fragment
             ELSE DefaultDomain \o name \o PluginSuffix \o fragment

\* func (p *Plugin) FullSource() string.  The name is what comes before the
\* first "#"; the fragment, "#" included, is kept behind the suffix.
FullSource(s) ==
    IF LooksLikePath(s) \/ LooksLikeLocation(s) THEN s
    ELSE LET hash == Index(s, 35)
             name == SubSeq(s, 1, hash - 1)
             fragment == SubSeq(s, hash, Len(s))
         IN  CASE Count(name, 47) = 0 ->
                    DefaultDomainAndOrg \o name \o PluginSuffix \o fragment
               [] Count(name, 47) = 1 ->
                    DefaultDomain \o name \o PluginSuffix \o fragment
               [] OTHER -> s

\* --- the sources drawn ---

\* t / # : . \ @ -
SourceAlphabet == {116, 47, 35, 58, 46, 92, 64, 45}

ShortSources == UNION {[1..n -> SourceAlphabet] : n \in 0..MaxSourceLen}

\* "thing"
TestSource1 ==
    <<116, 104, 105, 110, 103>>

\* "thing#main"
TestSource2 ==
    <<116, 104, 105, 110, 103, 35, 109, 97, 105, 110>>

\* "my-org/thing"
TestSource3 ==
    <<109, 121, 45, 111, 114, 103, 47, 116, 104, 105, 110, 103>>

\* "./.buildkite/plugins/llamas/rock"
TestSource4 ==
    <<46, 47, 46, 98, 117, 105, 108, 100, 107, 105, 116, 101, 47, 112,
      108, 117, 103, 105, 110, 115, 47, 108, 108, 97, 109, 97, 115, 47,
      114, 111, 99, 107>>

\* ".\.buildkite\plugins\llamas\rock"
TestSource5 ==
    <<46, 92, 46, 98, 117, 105, 108, 100, 107, 105, 116, 101, 92, 112,
      108, 117, 103, 105, 110, 115, 92, 108, 108, 97, 109, 97, 115, 92,
      114, 111, 99, 107>>

\* "C:\llamas\rock"
TestSource6 ==
    <<67, 58, 92, 108, 108, 97, 109, 97, 115, 92, 114, 111, 99, 107>>

\* "\\\\?\C:\user\docs"
TestSource7 ==
    <<92, 92, 92, 92, 63, 92, 67, 58, 92, 117, 115, 101, 114, 92, 100,
      111, 99, 115>>

\* "/a-plugin"
TestSource8 ==
    <<47, 97, 45, 112, 108, 117, 103, 105, 110>>

\* "/my-org/a-plugin"
TestSource9 ==
    <<47, 109, 121, 45, 111, 114, 103, 47, 97, 45, 112, 108, 117, 103,
      105, 110>>

\* "https://my-plugin.git"
TestSource10 ==
    <<104, 116, 116, 112, 115, 58, 47, 47, 109, 121, 45, 112, 108, 117,
      103, 105, 110, 46, 103, 105, 116>>

\* "file:///Users/user/Desktop/my-plugin.git"
TestSource11 ==
    <<102, 105, 108, 101, 58, 47, 47, 47, 85, 115, 101, 114, 115, 47,
      117, 115, 101, 114, 47, 68, 101, 115, 107, 116, 111, 112, 47, 109,
      121, 45, 112, 108, 117, 103, 105, 110, 46, 103, 105, 116>>

\* "git@github.com:buildkite/private-buildkite-plugin.git"
TestSource12 ==
    <<103, 105, 116, 64, 103, 105, 116, 104, 117, 98, 46, 99, 111, 109,
      58, 98, 117, 105, 108, 100, 107, 105, 116, 101, 47, 112, 114, 105,
      118, 97, 116, 101, 45, 98, 117, 105, 108, 100, 107, 105, 116, 101,
      45, 112, 108, 117, 103, 105, 110, 46, 103, 105, 116>>

\* "ssh://git@github.com:buildkite/private-buildkite-plugin.git"
TestSource13 ==
    <<115, 115, 104, 58, 47, 47, 103, 105, 116, 64, 103, 105, 116, 104,
      117, 98, 46, 99, 111, 109, 58, 98, 117, 105, 108, 100, 107, 105,
      116, 101, 47, 112, 114, 105, 118, 97, 116, 101, 45, 98, 117, 105,
      108, 100, 107, 105, 116, 101, 45, 112, 108, 117, 103, 105, 110,
      46, 103, 105, 116>>

\* "my:plugin"
TestSource14 ==
    <<109, 121, 58, 112, 108, 117, 103, 105, 110>>

\* The sources of TestPluginFullSource.
TestSources ==
    {TestSource1, TestSource2, TestSource3, TestSource4,
     TestSource5, TestSource6, TestSource7, TestSource8,
     TestSource9, TestSource10, TestSource11, TestSource12,
     TestSource13, TestSource14}

InitPlugin ==
    /\ OthersIdle("plugin")
    /\ gSource \in ShortSources \cup TestSources
    /\ gCalls = 0
    /\ gFirst = <<>>
    /\ gSecond = <<>>

\* p.FullSource() on a plugin whose Source is gSource.
DoFullSource ==
    /\ gCalls = 0
    /\ gFirst' = FullSource(gSource)
    /\ gCalls' = 1
    /\ UNCHANGED <<gSource, gSecond>>
    /\ OthersUnchanged("plugin")

\* p.Source = gFirst, then p.FullSource().
DoFullSourceAgain ==
    /\ gCalls = 1
    /\ gSecond' = FullSource(gFirst)
    /\ gCalls' = 2
    /\ UNCHANGED <<gSource, gFirst>>
    /\ OthersUnchanged("plugin")

NextPlugin == DoFullSource \/ DoFullSourceAgain

SpecPlugin == InitPlugin /\ [][NextPlugin]_vars

-----------------------------------------------------------------------------
(* The anchor and merge resolver.  The content of a mapping node is a      *)
(* sequence of entries: [kind |-> "pair", k, v] for a declared key, and    *)
(* [kind |-> "merge", aliases] for a merge key "<<" whose value is one     *)
(* alias (a sequence of one mapping) or a sequence of aliases.  A mapping  *)
(* is a function from its keys to its values.                              *)

\* Most aliases merged into one mapping.
MaxAliases == 2

PairEntry(k, v) == [kind |-> "pair", k |-> k, v |-> v, aliases |-> <<>>]

MergeEntry(aliases) == [kind |-> "merge", k |-> "<<", v |-> "", aliases |-> aliases]

\* OverwriteWith: the keys of the merged mapping replace the keys held.
OverwriteWith(acc, m) == m @@ acc

\* The keys of an aliased mapping that the mapping does not hold yet are
\* added to it.
MergeInto(acc, m) == acc @@ m

\* The aliases of one merge key, merged in order from the j-th on.
RECURSIVE MergeAliasesFrom(_, _, _)
MergeAliasesFrom(acc, aliases, j) ==
    IF j > Len(aliases) THEN acc
    ELSE MergeAliasesFrom(MergeInto(acc, aliases[j]), aliases, j + 1)

\* The keys the entries declare, from the i-th entry on.
RECURSIVE DeclaredFrom(_, _)
DeclaredFrom(entries, i) ==
    IF i > Len(entries) THEN <<>>
    ELSE IF entries[i].kind = "pair"
    THEN (entries[i].k :> entries[i].v) @@ DeclaredFrom(entries, i + 1)
    ELSE DeclaredFrom(entries, i + 1)

\* The merge keys of the entries, merged in order from the i-th entry on.
RECURSIVE MergedFrom(_, _, _)
MergedFrom(acc, entries, i) ==
    IF i > Len(entries) THEN acc
    ELSE IF entries[i].kind = "merge"
    THEN MergedFrom(MergeAliasesFrom(acc, entries[i].aliases, 1), entries, i + 1)
    ELSE MergedFrom(acc, entries, i + 1)

\* The mapping a mapping node resolves to: its declared keys, then what its
\* merge keys add.
ResolveMerges(entries) == MergedFrom(DeclaredFrom(entries, 1), entries, 1)

\* --- the mappings drawn ---

MergeKeyNames == {"type", "command"}

MergeValues == {"script", "wait"}

Mappings == UNION {[ks -> MergeValues] : ks \in SUBSET MergeKeyNames}

\* The declared keys as entries, "command" before "type".
DeclaredEntries(explicit) ==
    (IF "command" \in DOMAIN explicit
     THEN <<PairEntry("command", explicit["command"])>> ELSE <<>>)
    \o (IF "type" \in DOMAIN explicit
        THEN <<PairEntry("type", explicit["type"])>> ELSE <<>>)

\* One merge key per alias.
RepeatedMergeEntries(aliases) ==
    [j \in 1..Len(aliases) |-> MergeEntry(<<aliases[j]>>)]

\* The content of the mapping node: "<<: [*a1, *a2]" or "<<: *a1",
\* "<<: *a2", before or behind the declared keys.
NodeContent(explicit, aliases, mergeFirst, repeated) ==
    LET merges == IF repeated THEN RepeatedMergeEntries(aliases)
                  ELSE <<MergeEntry(aliases)>>
    IN  IF mergeFirst THEN merges \o DeclaredEntries(explicit)
        ELSE DeclaredEntries(explicit) \o merges

InitMerge ==
    /\ OthersIdle("merge")
    /\ mExplicit \in Mappings
    /\ mAliases \in UNION {[1..n -> Mappings] : n \in 1..MaxAliases}
    /\ mMergeFirst \in BOOLEAN
    /\ mSeqDone = FALSE /\ mSeqOut = <<>>
    /\ mRepDone = FALSE /\ mRepOut = <<>>

\* The document with one merge key and a sequence of aliases is parsed.
DoResolveSequence ==
    /\ ~mSeqDone
    /\ mSeqOut' = ResolveMerges(NodeContent(mExplicit, mAliases, mMergeFirst, FALSE))
    /\ mSeqDone' = TRUE
    /\ UNCHANGED <<mExplicit, mAliases, mMergeFirst, mRepDone, mRepOut>>
    /\ OthersUnchanged("merge")

\* The document with one merge key per alias is parsed.
DoResolveRepeated ==
    /\ ~mRepDone
    /\ mRepOut' = ResolveMerges(NodeContent(mExplicit, mAliases, mMergeFirst, TRUE))
    /\ mRepDone' = TRUE
    /\ UNCHANGED <<mExplicit, mAliases, mMergeFirst, mSeqDone, mSeqOut>>
    /\ OthersUnchanged("merge")

NextMerge == DoResolveSequence \/ DoResolveRepeated

SpecMerge == InitMerge /\ [][NextMerge]_vars

-----------------------------------------------------------------------------
(* Cache.UnmarshalOrdered.  The value given to it is a record              *)
(* [kind, s, n, b, l, paths, extra]: kind "string" (s its bytes), "int"    *)
(* (n), "bool" (b), "nil", "list" (l its elements, values of the same      *)
(* shape) or "map" (an *ordered.MapSA: paths the value of its "paths" key, *)
(* a sequence of one value when the key is there, and extra whether it has *)
(* an "extra" key).                                                        *)

\* Most elements of a sequence of paths.
MaxPaths == 2

CacheValue(kind, s, n, b, l) ==
    [kind |-> kind, s |-> s, n |-> n, b |-> b, l |-> l, paths |-> <<>>, extra |-> FALSE]

StringValue(s) == CacheValue("string", s, 0, FALSE, <<>>)

IntValue(n) == CacheValue("int", <<>>, n, FALSE, <<>>)

BoolValue(b) == CacheValue("bool", <<>>, 0, b, <<>>)

NilValue == CacheValue("nil", <<>>, 0, FALSE, <<>>)

ListValue(l) == CacheValue("list", <<>>, 0, FALSE, l)

MapSAValue(paths, extra) ==
    [kind |-> "map", s |-> <<>>, n |-> 0, b |-> FALSE, l |-> <<>>,
     paths |-> paths, extra |-> extra]

\* strconv's decimal form of a number 0..99.
Itoa(n) ==
    IF n < 10 THEN <<48 + n>> ELSE <<48 + (n \div 10), 48 + (n % 10)>>

\* The string form of a scalar: [err, s].
ScalarToString(v) ==
    CASE v.kind = "string" -> [err |-> "", s |-> v.s]
      [] v.kind = "int" -> [err |-> "", s |-> Itoa(v.n)]
      [] v.kind = "bool" ->
           [err |-> "", s |-> IF v.b THEN <<116, 114, 117, 101>>
                                      ELSE <<102, 97, 108, 115, 101>>]
      [] OTHER -> [err |-> "ErrUnsupportedSrc", s |-> <<>>]

\* ordered.Unmarshal of a []any into a []string, from the i-th element on:
\* [err, l].
RECURSIVE UnmarshalStringsFrom(_, _)
UnmarshalStringsFrom(l, i) ==
    IF i > Len(l) THEN [err |-> "", l |-> <<>>]
    ELSE LET e == ScalarToString(l[i])
             rest == UnmarshalStringsFrom(l, i + 1)
         IN  IF e.err # "" THEN [err |-> e.err, l |-> <<>>]
             ELSE IF rest.err # "" THEN rest
             ELSE [err |-> "", l |-> <<e.s>> \o rest.l]

\* ordered.Unmarshal of an *ordered.MapSA into the struct: "paths" is a
\* sequence of scalars, every other key goes to RemainingFields:
\* [err, paths, remaining].
UnmarshalCacheMap(v) ==
    IF v.paths = <<>>
    THEN [err |-> "", paths |-> [nil |-> TRUE, l |-> <<>>],
          remaining |-> IF v.extra THEN {"extra"} ELSE {}]
    ELSE IF v.paths[1].kind # "list"
    THEN [err |-> "ErrIncompatibleTypes", paths |-> [nil |-> TRUE, l |-> <<>>],
          remaining |-> {}]
    ELSE LET r == UnmarshalStringsFrom(v.paths[1].l, 1)
         IN  IF r.err # ""
             THEN [err |-> r.err, paths |-> [nil |-> TRUE, l |-> <<>>], remaining |-> {}]
             ELSE [err |-> "", paths |-> [nil |-> FALSE, l |-> r.l],
                   remaining |-> IF v.extra THEN {"extra"} ELSE {}]

NilPaths == [nil |-> TRUE, l |-> <<>>]

\* UnmarshalOrderedAnyScalar: a number or a boolean is taken as a single
\* path as well.
UnmarshalOrderedAnyScalar(o) ==
    CASE o.kind \in {"string", "int", "bool"} ->
           [err |-> "", paths |-> [nil |-> FALSE, l |-> <<ScalarToString(o).s>>],
            remaining |-> {}]
      [] o.kind = "list" ->
           LET r == UnmarshalStringsFrom(o.l, 1)
           IN  IF r.err # "" THEN [err |-> r.err, paths |-> NilPaths, remaining |-> {}]
               ELSE [err |-> "", paths |-> [nil |-> FALSE, l |-> r.l], remaining |-> {}]
      [] o.kind = "map" -> UnmarshalCacheMap(o)
      [] OTHER -> [err |-> "errUnsupportedCacheType", paths |-> NilPaths, remaining |-> {}]

\* func (c *Cache) UnmarshalOrdered(o any) error, on a zero Cache:
\* [err, paths, remaining].
UnmarshalOrdered(o) ==
    CASE o.kind = "string" ->
           [err |-> "", paths |-> [nil |-> FALSE, l |-> <<o.s>>], remaining |-> {}]
      [] o.kind = "list" ->
           LET r == UnmarshalStringsFrom(o.l, 1)
           IN  IF r.err # "" THEN [err |-> r.err, paths |-> NilPaths, remaining |-> {}]
               ELSE [err |-> "", paths |-> [nil |-> FALSE, l |-> r.l], remaining |-> {}]
      [] o.kind = "map" -> UnmarshalCacheMap(o)
      [] OTHER -> [err |-> "errUnsupportedCacheType", paths |-> NilPaths, remaining |-> {}]

\* --- the values drawn ---

\* "p" and "q/r"
PathStrings == {<<112>>, <<113, 47, 114>>}

CacheScalars ==
    {StringValue(s) : s \in PathStrings} \cup {IntValue(42), IntValue(7)}
    \cup {BoolValue(TRUE), BoolValue(FALSE)}

\* The elements of a sequence: scalars, a sequence and a mapping.
CacheElements ==
    CacheScalars \cup {ListValue(<<IntValue(1)>>), MapSAValue(<<>>, TRUE)}

CacheLists == {ListValue(l) : l \in UNION {[1..n -> CacheElements] : n \in 0..MaxPaths}}

CacheMaps ==
    {MapSAValue(p, x) :
        p \in {<<>>, <<MapSAValue(<<>>, TRUE)>>} \cup {<<l>> : l \in CacheLists},
        x \in BOOLEAN}

CacheSources == CacheScalars \cup {NilValue} \cup CacheLists \cup CacheMaps

InitCache ==
    /\ OthersIdle("cache")
    /\ hDone = FALSE
    /\ hSrc \in CacheSources
    /\ hPaths = NilPaths
    /\ hRemaining = {}
    /\ hErr = ""

\* var c Cache; c.UnmarshalOrdered(hSrc).
DoUnmarshalCache ==
    /\ ~hDone
    /\ LET r == UnmarshalOrdered(hSrc)
       IN  /\ hErr' = r.err
           /\ hPaths' = r.paths
           /\ hRemaining' = r.remaining
    /\ hDone' = TRUE
    /\ UNCHANGED hSrc
    /\ OthersUnchanged("cache")

NextCache == DoUnmarshalCache

SpecCache == InitCache /\ [][NextCache]_vars

-----------------------------------------------------------------------------
(* ordered.Map: Set.                                                       *)

\* Most Set calls made on one ordered map.
MaxMapSets == 3

\* The slot of the live item with the key, 0 without one.
SlotOf(items, k) ==
    IF \E i \in 1..Len(items) : items[i].k = k /\ ~items[i].deleted
    THEN CHOOSE i \in 1..Len(items) : items[i].k = k /\ ~items[i].deleted
    ELSE 0

\* MapSetMovingToEnd: a key that is set again is taken out of its slot and
\* put at the end.
MapSetMovingToEnd(items, k, v) ==
    SelectSeq(items, LAMBDA it : it.k # k) \o <<Item(k, v)>>

\* Map.Set(k, v): the item of a key the map has gets the value in its slot;
\* a new key is appended.
MapSet(items, k, v) ==
    IF SlotOf(items, k) # 0
    THEN [items EXCEPT ![SlotOf(items, k)].v = v]
    ELSE items \o <<Item(k, v)>>

OrderedKeys == {"a", "b", "c"}

OrderedValues == {"x", "y"}

InitOrdered ==
    /\ OthersIdle("ordered")
    /\ oItems = <<>>
    /\ oCalls = <<>>

\* m.Set(k, v).
DoMapSet ==
    /\ Len(oCalls) < MaxMapSets
    /\ \E k \in OrderedKeys, v \in OrderedValues :
         /\ oItems' = MapSet(oItems, k, v)
         /\ oCalls' = Append(oCalls, <<k, v>>)
    /\ OthersUnchanged("ordered")

NextOrdered == DoMapSet

SpecOrdered == InitOrdered /\ [][NextOrdered]_vars

-----------------------------------------------------------------------------
(* SpecCanon: canonicalPayload applied to two value mappings.              *)


\* Bytes of the drawn values: '"', '\', 'a', and the two bytes 0xFE and
\* 0xFF, which occur in no valid UTF-8 text.
ValueAlphabet == {34, 92, 97, 254, 255}

ValStrings == StringsUpTo(ValueAlphabet, MaxValLen)
ShortStrings == {<<>>, <<97>>}

KeyA == <<97>>
KeyAA == <<97, 97>>

\* The value mappings compared: none, one or two keys, where the one key's
\* text is a prefix of the other's.
CanonMappings ==
    {EmptyMap}
    \cup {[k \in {KeyA} |-> Str(v)] : v \in ValStrings}
    \cup {[k \in {KeyAA} |-> Str(v)] : v \in ShortStrings}
    \cup {[k \in {KeyA, KeyAA} |-> IF k = KeyA THEN Str(v) ELSE Str(w)] :
            v \in ShortStrings, w \in ShortStrings}

InitCanon ==
    /\ cAlg = HS256Name
    /\ cV1 \in CanonMappings
    /\ cV2 \in CanonMappings
    /\ cP1 = <<>>
    /\ cP2 = <<>>
    /\ cDone = FALSE
    /\ SignIdle
    /\ StepsIdle
    /\ KeyIdle
    /\ ParseSideIdle

\* Both mappings are turned into their payloads.
Canonicalise ==
    /\ ~cDone
    /\ cP1' = canonicalPayload(cAlg, cV1).bytes
    /\ cP2' = canonicalPayload(cAlg, cV2).bytes
    /\ cDone' = TRUE
    /\ UNCHANGED <<cAlg, cV1, cV2, signVars, verifyVars, stepsVars, keyVars, parseSideVars>>

NextCanon == Canonicalise

SpecCanon == InitCanon /\ [][NextCanon]_vars

-----------------------------------------------------------------------------
(* C4: the canonical payload is injective in the values: two distinct      *)
(* value mappings never yield the same payload.                            *)
C4_PayloadInjective ==
    (cDone /\ cV1 # cV2) => cP1 # cP2

\* The same on mappings whose strings are valid UTF-8.
ValidUTF8(s) == CoerceUTF8(s) = s
AllValid(values) == \A k \in DOMAIN values : ValidUTF8(values[k].s)

PayloadInjectiveOnValidText ==
    (cDone /\ cV1 # cV2 /\ AllValid(cV1) /\ AllValid(cV2)) => cP1 # cP2

-----------------------------------------------------------------------------
(* Claims about Sign and Verify (SpecSign).                                *)

\* Every entry of env a is an entry of env b.
EnvContains(b, a) == \A k \in DOMAIN a : k \in DOMAIN b /\ b[k] = a[k]

EnvSuffix(name) == SubSeq(name, Len(EnvNamespacePrefix) + 1, Len(name))

(* C1: Sign/Verify round trip.  The signature Sign returns for a command   *)
(* step under pipeline env E is accepted by Verify with a key set holding  *)
(* the key, the same step, and any env that contains every entry of E.     *)
C1_RoundTrip ==
    (/\ verified
     /\ sObj.type = "step"
     /\ vSig = sRes.sig
     /\ vObj = sObj
     /\ sKey \in vKeys
     /\ EnvContains(vEnv, sEnv))
    => vErr = ""

C1_Witness ==
    /\ verified
    /\ sObj = Step(CmdA, MapVal(VarA :> Val1), NilVal, NilVal)
    /\ vSig = sRes.sig
    /\ vObj = sObj
    /\ sKey \in vKeys
    /\ sEnv = (VarB :> Val1)
    /\ vEnv = (VarA :> Val2) @@ (VarB :> Val1)
    /\ vErr = ""

\* The object's own env as the claim words it: the map held under "env", if
\* a string-to-string map is held there.
OwnEnvKeys(base) ==
    IF s_env \in DOMAIN base /\ base[s_env].kind = "map" THEN DOMAIN base[s_env].m ELSE {}

\* after is base plus env::k -> v for exactly the entries (k, v) of env whose
\* k the object's own env does not define.
NamespacedExactly(after, base, env) ==
    LET added == (DOMAIN env) \ OwnEnvKeys(base)
    IN  /\ DOMAIN after = (DOMAIN base) \cup {EnvNamespacePrefix \o k : k \in added}
        /\ \A k \in added : after[EnvNamespacePrefix \o k] = Str(env[k])
        /\ \A k \in (DOMAIN env) \cap OwnEnvKeys(base) :
              LET n == EnvNamespacePrefix \o k
              IN  n \in DOMAIN after => (n \in DOMAIN base /\ after[n] = base[n])
        /\ \A f \in (DOMAIN base) \ {EnvNamespacePrefix \o k : k \in added} :
              after[f] = base[f]

(* C2: env namespacing with step-env precedence, in Sign and in Verify:    *)
(* the values gain env::k -> v for exactly the entries (k, v) of the       *)
(* caller's env whose k the object's own env does not define.              *)
C2_EnvNamespacing ==
    /\ (signed /\ sValues # <<>>)
          => NamespacedExactly(sValues, SignedFields(sObj).values, sEnv)
    /\ (verified /\ vValues # <<>>)
          => NamespacedExactly(vValues, ValuesForFields(vObj, vSig.SignedFields).values, vEnv)

C2_Witness ==
    /\ verified
    /\ sObj = Step(CmdA, MapVal(VarA :> Val1), NilVal, NilVal)
    /\ sEnv = (VarA :> Val2) @@ (VarB :> Val1)
    /\ EnvNamespacePrefix \o VarB \in DOMAIN sValues
    /\ EnvNamespacePrefix \o VarA \notin DOMAIN sValues
    /\ vObj = sObj
    /\ vEnv = (VarA :> Val2) @@ (VarB :> Val1)
    /\ EnvNamespacePrefix \o VarB \in DOMAIN vValues
    /\ EnvNamespacePrefix \o VarA \notin DOMAIN vValues

(* C3: the SignedFields of a signature Sign returns are in ascending       *)
(* lexicographic order, without duplicates, and are exactly the keys of    *)
(* the signed values.                                                      *)
C3_SignedFieldsSorted ==
    (signed /\ sRes.err = "")
    => LET fields == sRes.sig.SignedFields
       IN  /\ \A i \in 1..(Len(fields) - 1) : LexLess(fields[i], fields[i + 1])
           /\ Range(fields) = DOMAIN sValues
           /\ Len(fields) = Cardinality(DOMAIN sValues)

C3_Witness ==
    /\ signed
    /\ sRes.err = ""
    /\ sObj.type = "step"
    /\ Len(sRes.sig.SignedFields) = 7
    /\ EnvNamespacePrefix \o VarA \in Range(sRes.sig.SignedFields)

\* A name of the presented signature's SignedFields for which Verify has no
\* value: ValuesForFields fails, or the name is an env:: field that the
\* object does not provide and whose variable the verify env lacks or the
\* object's own env shadows.
HasNoValue(name) ==
    LET vff == ValuesForFields(vObj, vSig.SignedFields)
    IN  \/ vff.err # ""
        \/ /\ HasPrefix(name, EnvNamespacePrefix)
           /\ name \notin DOMAIN vff.values
           /\ \/ EnvSuffix(name) \notin DOMAIN vEnv
              \/ EnvSuffix(name) \in OwnEnvKeys(vff.values)

(* C8: Verify returns an error whenever some name in the signature's       *)
(* SignedFields has no value.                                              *)
C8_MissingFieldFails ==
    (verified /\ \E i \in 1..Len(vSig.SignedFields) : HasNoValue(vSig.SignedFields[i]))
    => vErr # ""

C8_Witness ==
    /\ verified
    /\ vObj = sObj
    /\ sKey \in vKeys
    /\ ValuesForFields(vObj, vSig.SignedFields).err = ""
    /\ EnvNamespacePrefix \o VarB \in Range(vSig.SignedFields)
    /\ VarB \notin DOMAIN vEnv
    /\ vErr = "obtaining required keys"

NilOrEmpty(v) == v.kind = "nil" \/ (v.kind = "map" /\ DOMAIN v.m = {})
                                \/ (v.kind = "list" /\ Len(v.l) = 0)

SameUpToNilEmpty(a, b) ==
    /\ a.type = "step" /\ b.type = "step"
    /\ a.Command = b.Command
    /\ a.RepositoryURL = b.RepositoryURL
    /\ a.Env = b.Env \/ (NilOrEmpty(a.Env) /\ NilOrEmpty(b.Env))
    /\ a.Plugins = b.Plugins \/ (NilOrEmpty(a.Plugins) /\ NilOrEmpty(b.Plugins))
    /\ a.Matrix = b.Matrix \/ (NilOrEmpty(a.Matrix) /\ NilOrEmpty(b.Matrix))

(* C10: nil/empty equivalence.  A signature over a command step verifies   *)
(* against a step that differs from it only in having env, plugins or      *)
(* matrix empty where the signed step has it nil, or nil where the signed  *)
(* step has it empty.                                                      *)
C10_NilEmptyEquivalence ==
    (/\ verified
     /\ SameUpToNilEmpty(sObj, vObj)
     /\ vSig = sRes.sig
     /\ sKey \in vKeys
     /\ EnvContains(vEnv, sEnv))
    => vErr = ""

C10_Witness ==
    /\ verified
    /\ sObj = Step(CmdA, NilVal, NilVal, NilVal)
    /\ vObj = Step(CmdA, MapVal(EmptyMap), ListVal(<<>>), ListVal(<<>>))
    /\ vSig = sRes.sig
    /\ sKey \in vKeys
    /\ vErr = ""

-----------------------------------------------------------------------------
(* Claims about SignSteps and SignPipeline.                                *)

\* The steps in traversal order: group steps replaced by the steps inside.
RECURSIVE Flatten(_)
Flatten(s) ==
    IF s = <<>> THEN <<>>
    ELSE (IF Head(s).kind = "group" THEN Flatten(Head(s).Steps) ELSE <<Head(s)>>)
         \o Flatten(Tail(s))

\* The signature Sign computes for a command step under the call's key and
\* options, and its error.
SignOf(step) == Sign("live", pKey, StepWithInvariants(step, RepoURL), pEnv, "ascending")

\* The traversal gets as far as step i of the flattened pipeline, which is
\* of unknown type: nothing before it stops the traversal.
ReachesUnknown(flat, i) ==
    /\ flat[i].kind = "unknown"
    /\ \A j \in 1..(i - 1) :
          /\ flat[j].kind # "unknown"
          /\ flat[j].kind = "command" => SignOf(flat[j]).err = ""

\* C5: SignSteps and SignPipeline return an error err with
\* errors.Is(err, errSigningRefusedUnknownStepType) whenever the traversal
\* reaches an UnknownStep, at the top level or inside group steps at any
\* depth.
C5_UnknownStepRefused ==
    pDone =>
        LET flat == Flatten(pBefore)
        IN  \A i \in 1..Len(flat) :
               ReachesUnknown(flat, i) =>
                  errorsIs(pErr, errSigningRefusedUnknownStepType)

\* SignPipeline met an unknown step nested two group steps deep.
C5_Witness ==
    /\ pDone
    /\ pEntry = "SignPipeline"
    /\ \E i \in 1..Len(pBefore) :
          /\ pBefore[i].kind = "group"
          /\ Len(pBefore[i].Steps) = 1
          /\ pBefore[i].Steps[1].kind = "group"
          /\ pBefore[i].Steps[1].Steps = <<UnknownStep>>
    /\ \E k \in 1..Len(Flatten(pBefore)) : ReachesUnknown(Flatten(pBefore), k)
    /\ errorsIs(pErr, errSigningRefusedUnknownStepType)

\* C6 as stated: when signing fails because of an UnknownStep, the
\* Signature of every command step that precedes the unknown step in
\* traversal order is the same after the call as before it.
C6_PriorSignaturesUnchanged ==
    (pDone /\ errorsIs(pErr, errSigningRefusedUnknownStepType)) =>
        LET before == Flatten(pBefore)
            after  == Flatten(pSteps)
        IN  \A i \in 1..Len(before) :
               ReachesUnknown(before, i) =>
                  \A j \in 1..(i - 1) :
                     before[j].kind = "command" =>
                        after[j].Signature = before[j].Signature

\* C6 amended: when signing fails because of an UnknownStep, every command
\* step that precedes the unknown step in traversal order carries the
\* signature this call computed for it; every other step is as it was.
C6_PriorStepsSigned ==
    (pDone /\ errorsIs(pErr, errSigningRefusedUnknownStepType)) =>
        LET before == Flatten(pBefore)
            after  == Flatten(pSteps)
        IN  /\ Len(after) = Len(before)
            /\ \A i \in 1..Len(before) :
                  ReachesUnknown(before, i) =>
                     /\ \A j \in 1..(i - 1) :
                           IF before[j].kind = "command"
                           THEN after[j] = [before[j] EXCEPT !.Signature = SignOf(before[j]).sig]
                           ELSE after[j] = before[j]
                     /\ \A j \in i..Len(before) : after[j] = before[j]

\* The call failed on an unknown step that follows an unsigned command step
\* and a command step carrying a stale signature.
C6_Witness ==
    /\ pDone
    /\ errorsIs(pErr, errSigningRefusedUnknownStepType)
    /\ LET before == Flatten(pBefore)
       IN  /\ Len(before) = 3
           /\ before[1].kind = "command" /\ before[1].Signature = NoSignature
           /\ before[2].kind = "command" /\ before[2].Signature = StaleSignature
           /\ before[3].kind = "unknown"
           /\ Flatten(pSteps)[1].Signature # NoSignature
           /\ Flatten(pSteps)[2].Signature # StaleSignature

\* The steps with the Signature of every command step taken off, inside
\* group steps as well.
RECURSIVE WithoutSignatures(_)
WithoutSignatures(s) ==
    [i \in 1..Len(s) |->
        CASE s[i].kind = "command" -> [s[i] EXCEPT !.Signature = NoSignature]
          [] s[i].kind = "group" -> [s[i] EXCEPT !.Steps = WithoutSignatures(s[i].Steps)]
          [] OTHER -> s[i]]

\* C24: when SignSteps returns nil, every command step of the pipeline, at
\* the top level and inside group steps at any depth, has a Signature that
\* is not nil and that this call made with the given key, and every wait,
\* input and trigger step is as it was.
C24_AllCommandStepsSigned ==
    (pDone /\ pEntry = "SignSteps" /\ pErr = <<>>) =>
        LET before == Flatten(pBefore)
            after  == Flatten(pSteps)
        IN  /\ WithoutSignatures(pSteps) = WithoutSignatures(pBefore)
            /\ Len(after) = Len(before)
            /\ \A j \in 1..Len(before) :
                  IF before[j].kind = "command"
                  THEN /\ after[j].Signature # NoSignature
                       /\ after[j].Signature = SignOf(before[j]).sig
                       /\ after[j].Signature.Value.kid = pKey.kid
                       /\ after[j].Signature.Value.mat = pKey.mat
                  ELSE after[j] = before[j]

\* SignSteps returned nil for a command step with a stale signature inside
\* a group of a group: the
\* command step has a new signature.
C24_Witness ==
    /\ pDone /\ pEntry = "SignSteps" /\ pErr = <<>>
    /\ pBefore = <<GroupStep(<<GroupStep(<<CommandStep(CmdB, NilVal, StaleSignature)>>)>>)>>
    /\ Flatten(pSteps)[1].Signature # StaleSignature
    /\ Flatten(pSteps)[1].Signature.Value.kid = pKey.kid

\* Step i of the flattened pipeline is the one the traversal fails on: a
\* step of unknown type or a command step Sign refuses, with nothing before
\* it that stops the traversal.
Fails(step) ==
    \/ step.kind = "unknown"
    \/ step.kind = "command" /\ SignOf(step).err # ""
FailsAt(flat, i) ==
    /\ Fails(flat[i])
    /\ \A j \in 1..(i - 1) : ~Fails(flat[j])

\* C25: signing stops at the first failure: when SignSteps returns an error
\* (an UnknownStep or a failing Sign), no step that comes after the failing
\* step in depth-first traversal order is signed or otherwise modified by
\* the call.
StopsAtFirstFailure ==
    (~pDone /\ pDone' /\ pErr' # <<>>) =>
        LET before == Flatten(pSteps)
            after  == Flatten(pSteps')
        IN  /\ Len(after) = Len(before)
            /\ \E i \in 1..Len(before) : FailsAt(before, i)
            /\ \A i \in 1..Len(before) :
                  FailsAt(before, i) =>
                     \A j \in (i + 1)..Len(before) : after[j] = before[j]
C25_StopsAtFirstFailure == [][StopsAtFirstFailure]_vars

\* SignSteps failed on a command step Sign refuses, and the unsigned command
\* step after it, which Sign accepts, is still unsigned.
C25_Witness ==
    /\ pDone /\ pEntry = "SignSteps" /\ pErr # <<>>
    /\ pKey = Key1
    /\ pBefore = <<CommandStep(CmdA, BadVal, NoSignature),
                   GroupStep(<<CommandStep(CmdA, NilVal, NoSignature)>>)>>
    /\ FailsAt(Flatten(pBefore), 1)
    /\ ~Fails(Flatten(pBefore)[2])
    /\ pSteps = pBefore

-----------------------------------------------------------------------------
(* Claims about jwkutil.Validate.                                          *)

\* The combinations of key type and algorithm the key policy permits.
PermittedKeys == {<<"RSA", "PS512">>, <<"EC", "ES512">>, <<"OKP", "EdDSA">>}

\* C7: for a structurally valid key, Validate returns nil if and only if
\* (key type, algorithm) is one of (RSA, PS512), (EC, ES512), (OKP, EdDSA);
\* a key without an algorithm, or whose algorithm is not a signature
\* algorithm, is rejected.
C7_KeyPolicy ==
    (kDone /\ kKey.valid) =>
        (kErr = "" <=> /\ kKey.hasAlg
                       /\ kKey.algKind = "sig"
                       /\ <<kKey.kty, kKey.alg>> \in PermittedKeys)

\* Validate rejected a valid EC key that carries the algorithm permitted for
\* RSA keys.
C7_Witness ==
    /\ kDone
    /\ kKey = JwkKey(TRUE, "EC", TRUE, "sig", "PS512")
    /\ kErr = ErrUnsupportedSigningAlgorithmForKeyType

-----------------------------------------------------------------------------
(* Claims about package env.                                               *)

\* a and b are the same name, or differ only in the case of their letters.
IsLetter(c) == (c >= 65 /\ c <= 90) \/ (c >= 97 /\ c <= 122)
EqualIgnoringCase(a, b) ==
    /\ Len(a) = Len(b)
    /\ \A i \in 1..Len(a) :
          \/ a[i] = b[i]
          \/ IsLetter(a[i]) /\ IsLetter(b[i]) /\ (a[i] - b[i] = 32 \/ b[i] - a[i] = 32)

\* The Set calls made before the last Get whose key is the key k under the
\* Env's case mode.
MatchingSets(k) ==
    {i \in 1..eGetAfter :
        IF eCaseInsensitive THEN EqualIgnoringCase(eSets[i][1], k) ELSE eSets[i][1] = k}

\* C16: after any sequence of Set calls, Get(k) returns (v, true) with v the
\* value of the most recent Set whose key equals k (exactly, or ignoring case
\* in case-insensitive mode), and ("", false) when there is none; Get on a
\* nil Env returns ("", false).
C16_EnvSetGet ==
    eGot.called =>
        LET m == MatchingSets(eGetKey)
        IN  IF eNil \/ m = {}
            THEN eGot.found = FALSE /\ eGot.v = <<>>
            ELSE \E i \in m :
                    /\ \A j \in m : j <= i
                    /\ eGot.found = TRUE
                    /\ eGot.v = eSets[i][2]

\* A case-insensitive Env had FOO set to "u" and then Foo set to "l", and
\* Get(FOO) returned "l".
C16_Witness ==
    /\ eGot.called
    /\ eCaseInsensitive
    /\ eGetAfter = 2
    /\ eSets[1] = <<<<70, 79, 79>>, <<117>>>>
    /\ eSets[2] = <<<<70, 111, 111>>, <<108>>>>
    /\ eGetKey = <<70, 79, 79>>
    /\ eGot.found /\ eGot.v = <<108>>

-----------------------------------------------------------------------------
(* Claims about Pipeline.Interpolate.                                      *)

\* The variables of env whose name is the name n under the case mode.
Matching(env, n) ==
    {k \in DOMAIN env :
        IF iCaseInsensitive THEN EqualIgnoringCase(k, n) ELSE k = n}

\* The pipeline env, as Interpolate leaves it, defines the name n under the
\* case mode.
PipelineDefines(n) ==
    \E i \in 1..Len(iEnvOut) :
        IF iCaseInsensitive THEN EqualIgnoringCase(iEnvOut[i][1], n) ELSE iEnvOut[i][1] = n

C12_CaseAwareLookup ==
    iDone =>
        \A n \in {NameA, NameLowerA} :
            iStepIn.Command = Ref(n) =>
                /\ iErr = ""
                /\ IF Matching(iMerged, n) = {}
                   THEN iStepOut.Command = <<>>
                   ELSE \E k \in Matching(iMerged, n) : iStepOut.Command = iMerged[k]

\* Case-sensitive, runtime env A=r, no pipeline env: ${a} became the empty
\* string and no error was returned.
C12_Witness ==
    /\ iDone
    /\ ~iCaseInsensitive
    /\ iRuntime = (NameA :> <<114>>)
    /\ iEnvIn = <<>>
    /\ iStepIn.Command = Ref(NameLowerA)
    /\ iStepOut.Command = <<>>
    /\ iErr = ""

\* The name of a variable as the env stores it.
Norm(k) == IF iCaseInsensitive THEN ToUpper(k) ELSE k

\* The environment that entry i of the env block sees when no entry has
\* disappeared: the runtime env, and for every other name the value of the
\* first of the interpolated entries 1..i-1 that has it.
EnvBefore(i) ==
    LET earlier == {Norm(iEnvOut[j][1]) : j \in 1..(i - 1)}
        First(x) == CHOOSE j \in 1..(i - 1) :
                       /\ Norm(iEnvOut[j][1]) = x
                       /\ \A h \in 1..(j - 1) : Norm(iEnvOut[h][1]) # x
    IN  [x \in (DOMAIN iRuntime) \cup earlier |->
            IF x \in DOMAIN iRuntime THEN iRuntime[x] ELSE iEnvOut[First(x)][2]]

KeyForm(i) == Interpolate(iMerged, iCaseInsensitive, iEnvIn[i][1]).out

\* The ways to pick the entries that remain: strictly increasing maps from
\* the positions of the env block after the call to those before it.
Survivors ==
    {f \in [1..Len(iEnvOut) -> 1..Len(iEnvIn)] :
        \A a, b \in 1..Len(iEnvOut) : a < b => f[a] < f[b]}

RECURSIVE ReferencesFrom(_, _)
ReferencesFrom(s, i) ==
    IF i >= Len(s) THEN {}
    ELSE CASE (s[i] = 92 \/ s[i] = 36) /\ s[i + 1] = 36 -> ReferencesFrom(s, i + 2)
           [] s[i] = 36 /\ s[i + 1] = 123 ->
                LET e == IdentEnd(s, i + 2)
                IN  IF e > i + 2 /\ e <= Len(s) /\ (s[e] = 125 \/ s[e] = 63)
                    THEN {SubSeq(s, i + 2, e - 1)} \cup ReferencesFrom(s, e)
                    ELSE ReferencesFrom(s, i + 2)
           [] s[i] = 36 /\ IsIdentStart(s[i + 1]) ->
                LET e == IdentEnd(s, i + 1)
                IN  {SubSeq(s, i + 1, e - 1)} \cup ReferencesFrom(s, e)
           [] OTHER -> ReferencesFrom(s, i + 1)

\* s holds an unescaped reference to a variable of the merged environment.
HoldsResolvableReference(s) ==
    \E name \in ReferencesFrom(s, 1) : Matching(iMerged, name) # {}

\* The string-valued leaves of a step, mapping keys included.
Leaves(step) ==
    {step.Key, step.Command}
    \cup {step.DependsOn[i] : i \in 1..Len(step.DependsOn)}
    \cup DOMAIN step.RemainingFields
    \cup {step.RemainingFields[k] : k \in DOMAIN step.RemainingFields}

\* s holds the character "$".
HoldsDollar(s) == \E i \in 1..Len(s) : s[i] = 36

\* s holds an escaped "$": "$$" or "\$".
HoldsEscape(s) ==
    \E i \in 1..(Len(s) - 1) : (s[i] = 92 \/ s[i] = 36) /\ s[i + 1] = 36

-----------------------------------------------------------------------------
(* Claims about step dispatch and Parse (SpecParse).                       *)

\* The rows of the dispatch table, each with the rows above it ruled out.
HasAny(n, keys) == n.kind = "mapping" /\ n.keys \cap keys # {}

NoInferenceKey(n) ==
    /\ n.kind = "mapping"
    /\ ~HasAny(n, {"command", "commands", "wait", "block", "input", "trigger",
                   "group", "steps"})

IsScalar(n, texts) == n.kind = "scalar" /\ n.text \in texts

HasType(n, types) == NoInferenceKey(n) /\ n.type \in types

TableSaysCommand(n) ==
    HasAny(n, {"command", "commands"}) \/ HasType(n, {"command", "script"})

TableSaysWait(n) ==
    \/ IsScalar(n, {"wait", "waiter"})
    \/ HasAny(n, {"wait"}) /\ ~HasAny(n, {"command", "commands"})
    \/ HasType(n, {"wait", "waiter"})

TableSaysInput(n) ==
    \/ IsScalar(n, {"block", "input"})
    \/ HasAny(n, {"block", "input"}) /\ ~HasAny(n, {"command", "commands", "wait"})
    \/ HasType(n, {"block", "input", "manual"})

TableSaysTrigger(n) ==
    \/ HasAny(n, {"trigger"})
         /\ ~HasAny(n, {"command", "commands", "wait", "block", "input"})
    \/ HasType(n, {"trigger"})

TableSaysGroup(n) ==
    \/ HasAny(n, {"group", "steps"})
         /\ ~HasAny(n, {"command", "commands", "wait", "block", "input", "trigger"})
    \/ HasType(n, {"group"})

\* C17: step dispatch gives every step node exactly one variant, the one
\* the table names: scalar wait/waiter is a WaitStep, scalar block/input an
\* InputStep; a mapping with command or commands is a CommandStep, else with
\* wait a WaitStep, with block or input an InputStep, with trigger a
\* TriggerStep, with group or steps a GroupStep; else its type decides
\* (block, input, manual: Input; wait, waiter: Wait; command, script:
\* Command; trigger: Trigger; group: Group); anything else is an
\* UnknownStep.
C17_DispatchTable ==
    dDone =>
        /\ Len(dDispatched) = Len(dNodes)
        /\ \A i \in 1..Len(dNodes) :
             LET n == dNodes[i]
                 v == dDispatched[i]
             IN  /\ v \in {"Command", "Wait", "Input", "Trigger", "Group", "Unknown"}
                 /\ (v = "Command") <=> TableSaysCommand(n)
                 /\ (v = "Wait") <=> TableSaysWait(n)
                 /\ (v = "Input") <=> TableSaysInput(n)
                 /\ (v = "Trigger") <=> TableSaysTrigger(n)
                 /\ (v = "Group") <=> TableSaysGroup(n)

\* A mapping with an unrelated key and "type: manual" was dispatched as an
\* InputStep.
C17_Witness ==
    /\ dDone
    /\ dNodes = <<MappingNode({"llama"}, "manual", "absent")>>
    /\ dDispatched = <<"Input">>

\* The node is no step of a known variant, or does not decode into the
\* variant it was given.
Offends(n) ==
    \/ ~(TableSaysCommand(n) \/ TableSaysWait(n) \/ TableSaysInput(n)
           \/ TableSaysTrigger(n) \/ TableSaysGroup(n))
    \/ TableSaysCommand(n) /\ n.env = "nested"

\* The kind of warning an offending node leaves.
KindOf(n) ==
    IF TableSaysCommand(n) THEN "IncompatibleTypes"
    ELSE IF n.kind = "mapping" /\ n.type = "none" THEN "StepTypeInference"
    ELSE "UnknownStepType"

\* The kinds of the offending nodes among the first i nodes, in order.
RECURSIVE KindsUpTo(_, _)
KindsUpTo(nodes, i) ==
    IF i = 0 THEN <<>>
    ELSE KindsUpTo(nodes, i - 1)
           \o (IF Offends(nodes[i]) THEN <<KindOf(nodes[i])>> ELSE <<>>)

\* C18: steps that cannot be classified or decoded are not fatal.  Parse
\* returns a pipeline that is not nil and holds exactly one step per step
\* node in source order, each offending node kept as an UnknownStep with
\* its raw contents, together with a warning whose underlying kinds have one
\* entry per offending step, in step order.
C18_UnknownStepsAreWarnings ==
    dDone =>
        /\ ~dNil
        /\ dErr # "fatal"
        /\ Len(dSteps) = Len(dNodes)
        /\ \A i \in 1..Len(dNodes) :
             /\ dSteps[i].contents = dNodes[i]
             /\ (dSteps[i].variant = "Unknown") <=> Offends(dNodes[i])
        /\ dKinds = KindsUpTo(dNodes, Len(dNodes))
        /\ (dErr = "warning") <=> (\E i \in 1..Len(dNodes) : Offends(dNodes[i]))
        /\ \A i \in 1..Len(dKinds) :
             dKinds[i] \in {"UnknownStepType", "StepTypeInference", "IncompatibleTypes"}

\* The document of TestParserPreservesUnknownStepTypes was parsed: four
\* unknown steps and a warning of four kinds.
C18_Witness ==
    /\ dDone
    /\ dNodes = <<ScalarNode("catawumpus"),
                  MappingNode({"llama"}, "none", "absent"),
                  MappingNode({}, "mystery", "absent"),
                  MappingNode({"command"}, "none", "nested")>>
    /\ \A i \in 1..4 : dSteps[i].variant = "Unknown"
    /\ dErr = "warning"
    /\ dKinds = <<"UnknownStepType", "StepTypeInference", "UnknownStepType",
                  "IncompatibleTypes">>

-----------------------------------------------------------------------------
(* Claims about Plugin.FullSource (SpecPlugin).                            *)

\* C20: plugin source normalisation is idempotent: FullSource of a plugin
\* whose Source is FullSource(s) is FullSource(s) again, for bare names,
\* org/name, paths, drive prefixes, URLs and VCS-style sources alike.
C20_FullSourceIdempotent ==
    (gCalls = 2) => (gSecond = gFirst)

\* "thing#main" was normalised twice: the first call made it longer, the
\* second left it as it was.
C20_Witness ==
    /\ gCalls = 2
    /\ gSource = TestSource2
    /\ gFirst = DefaultDomainAndOrg \o <<116, 104, 105, 110, 103>> \o PluginSuffix
                  \o <<35, 109, 97, 105, 110>>
    /\ gSecond = gFirst

-----------------------------------------------------------------------------
(* Claims about the merge resolver (SpecMerge).                            *)

\* The aliased mappings that have the key, by their place in the order.
Having(k) == {j \in 1..Len(mAliases) : k \in DOMAIN mAliases[j]}

Earliest(k) == CHOOSE j \in Having(k) : \A o \in Having(k) : j <= o

\* The mapping holds, for each key, the declared value if the key is
\* declared, else the value of the earliest aliased mapping that has it.
DeclaredThenEarliest(out) ==
    /\ DOMAIN out = DOMAIN mExplicit \cup {k \in MergeKeyNames : Having(k) # {}}
    /\ \A k \in DOMAIN out :
         out[k] = IF k \in DOMAIN mExplicit THEN mExplicit[k]
                  ELSE mAliases[Earliest(k)][k]

\* C19: in a mapping with merge keys each key resolves to the declared
\* value if the mapping declares the key, else to the value of the earliest
\* merged mapping that has it; one merge key with a sequence of aliases and
\* several merge keys with one alias each resolve to the same mapping.
C19_MergeResolution ==
    /\ mSeqDone => DeclaredThenEarliest(mSeqOut)
    /\ mRepDone => DeclaredThenEarliest(mRepOut)
    /\ (mSeqDone /\ mRepDone) => mSeqOut = mRepOut

\* Both forms were resolved for a mapping that declares "type" behind a
\* merge of two mappings: the first has "type" and "command", the second
\* another "command".
C19_Witness ==
    /\ mSeqDone /\ mRepDone
    /\ mMergeFirst
    /\ mExplicit = ("type" :> "script")
    /\ mAliases = <<("type" :> "wait" @@ "command" :> "wait"),
                    ("command" :> "script")>>
    /\ mSeqOut = ("type" :> "script" @@ "command" :> "wait")
    /\ mRepOut = mSeqOut

-----------------------------------------------------------------------------
(* Claims about Cache.UnmarshalOrdered (SpecCache).                        *)

\* The value is a sequence whose elements are all scalars.
SequenceOfScalars(v) ==
    v.kind = "list" /\ \A i \in 1..Len(v.l) : v.l[i].kind \in {"string", "int", "bool"}

\* The string forms of the elements of a sequence of scalars.
StringForms(l) == [i \in 1..Len(l) |-> ScalarToString(l[i]).s]

\* C21 as stated: UnmarshalOrdered fails with UnsupportedCacheType exactly
\* when the source is neither a scalar, a sequence nor a mapping; a scalar
\* and a sequence of scalars are accepted and populate only Paths, with
\* each scalar in its string form.
C21_AnyScalarAccepted ==
    hDone =>
        /\ (hErr = "errUnsupportedCacheType")
             <=> (hSrc.kind \notin {"string", "int", "bool", "list", "map"})
        /\ (hSrc.kind \in {"string", "int", "bool"}) =>
             /\ hErr = ""
             /\ hPaths = [nil |-> FALSE, l |-> <<ScalarToString(hSrc).s>>]
             /\ hRemaining = {}
        /\ SequenceOfScalars(hSrc) =>
             /\ hErr = ""
             /\ hPaths = [nil |-> FALSE, l |-> StringForms(hSrc.l)]
             /\ hRemaining = {}

\* C21 amended: UnmarshalOrdered fails with UnsupportedCacheType exactly
\* when the source is neither a string, a sequence nor a mapping, so a
\* number or a boolean given as the source is refused; a string and a
\* sequence of scalars are accepted and populate only Paths, with each
\* scalar in its string form; a mapping is accepted when its paths are a
\* sequence of scalars or absent.
C21_OnlyStringScalarAccepted ==
    hDone =>
        /\ (hErr = "errUnsupportedCacheType")
             <=> (hSrc.kind \notin {"string", "list", "map"})
        /\ (hSrc.kind = "string") =>
             /\ hErr = ""
             /\ hPaths = [nil |-> FALSE, l |-> <<hSrc.s>>]
             /\ hRemaining = {}
        /\ SequenceOfScalars(hSrc) =>
             /\ hErr = ""
             /\ hPaths = [nil |-> FALSE, l |-> StringForms(hSrc.l)]
             /\ hRemaining = {}
        /\ (hSrc.kind = "map" /\ (hSrc.paths = <<>> \/ SequenceOfScalars(hSrc.paths[1])))
             => hErr = ""

\* The sequence "p", 42 was decoded: Paths is "p", "42".
C21_Witness ==
    /\ hDone
    /\ hSrc = ListValue(<<StringValue(<<112>>), IntValue(42)>>)
    /\ hErr = ""
    /\ hPaths = [nil |-> FALSE, l |-> <<<<112>>, <<52, 50>>>>]

-----------------------------------------------------------------------------
(* Claims about ordered.Map (SpecOrdered).                                 *)

\* The keys of the calls in the order each was first set.
RECURSIVE FirstInsertions(_)
FirstInsertions(calls) ==
    IF calls = <<>> THEN <<>>
    ELSE LET before == FirstInsertions(SubSeq(calls, 1, Len(calls) - 1))
             k == calls[Len(calls)][1]
         IN  IF \E i \in 1..Len(before) : before[i] = k THEN before
             ELSE Append(before, k)

\* The value of the last call that set the key.
LastSet(calls, k) ==
    LET last == CHOOSE i \in 1..Len(calls) :
                    /\ calls[i][1] = k
                    /\ \A j \in (i + 1)..Len(calls) : calls[j][1] # k
    IN  calls[last][2]

\* The keys are pairwise distinct and listed in the order of their first
\* insertion, each with the value it was last set to.
KeysInInsertionOrder ==
    LET live == LiveItems(oItems)
    IN  /\ \A i, j \in 1..Len(live) : i # j => live[i][1] # live[j][1]
        /\ [i \in 1..Len(live) |-> live[i][1]] = FirstInsertions(oCalls)
        /\ \A i \in 1..Len(live) : live[i][2] = LastSet(oCalls, live[i][1])

\* A Set on a key the map has puts the value in the key's slot and leaves
\* the position of every key as it was.
SetInPlace ==
    \A k \in OrderedKeys :
        (SlotOf(oItems, k) # 0 /\ Len(oCalls') = Len(oCalls) + 1
            /\ oCalls'[Len(oCalls')][1] = k)
        => /\ Len(oItems') = Len(oItems)
           /\ \A i \in 1..Len(oItems) : oItems'[i].k = oItems[i].k
           /\ oItems'[SlotOf(oItems, k)].v = oCalls'[Len(oCalls')][2]

\* C22: after any sequence of Set operations the keys of an ordered map are
\* pairwise distinct and listed in the order of their first insertion;
\* Set(k, v) on a key already present replaces the value at the key's
\* position and leaves the position of every key unchanged.
C22_OrderedMapInvariant == []KeysInInsertionOrder /\ [][SetInPlace]_vars

\* "a" was set, then "b", then "a" again with another value: "a" is still
\* first and has the new value.
C22_Witness ==
    /\ oCalls = <<<<"a", "x">>, <<"b", "x">>, <<"a", "y">>>>
    /\ LiveItems(oItems) = <<<<"a", "y">>, <<"b", "x">>>>

-----------------------------------------------------------------------------
(* Claims about signatures as presented to Verify (SpecPresent).           *)

\* C23: no signature covers zero fields.  Sign returns an error and no
\* signature when SignedFields yields an empty map, whatever env is given;
\* Verify returns the error "signature covers no fields" for every
\* signature whose SignedFields list is empty, whatever the object and the
\* keys are.
C23_NoSignatureCoversNoFields ==
    /\ (tSigned /\ DOMAIN SignedFields(tObj).values = {}) =>
          (tRes.err = "no fields to sign" /\ tRes.sig = NoSignature)
    /\ (tVerified >= 1 /\ Len(tSig.SignedFields) = 0) =>
          tErr1 = "signature covers no fields"
    /\ (tVerified = 2 /\ Len(tSig.SignedFields) = 0) =>
          tErr2 = "signature covers no fields"

\* Sign was given an object without fields and an env that is not empty,
\* and refused; a signature without signed fields was then refused by
\* Verify for a command step, which has no values for no fields.
C23_Witness ==
    /\ tSigned /\ tObj = testFields(EmptyMap) /\ tSignEnv = (VarA :> Val1)
    /\ tRes.err = "no fields to sign"
    /\ tVerified = 1 /\ tSig.SignedFields = <<>>
    /\ tVerObj = Step(CmdB, NilVal, NilVal, NilVal)
    /\ tErr1 = "signature covers no fields"


\* The variables k whose field env::k the presented signature covers.
SignedEnvNames ==
    {k \in DOMAIN tEnv1 \cup DOMAIN tEnv2 :
        \E i \in 1..Len(tSig.SignedFields) : tSig.SignedFields[i] = EnvNamespacePrefix \o k}

\* The two verify envs agree on k: both lack it or both hold the same value.
AgreeOn(k) ==
    /\ (k \in DOMAIN tEnv1) = (k \in DOMAIN tEnv2)
    /\ (k \in DOMAIN tEnv1 /\ k \in DOMAIN tEnv2) => tEnv1[k] = tEnv2[k]

\* C26: Verify is insensitive to unsigned environment variables: for the
\* same signature, object and keys, two verify envs that agree on every k
\* for which env::k is in SignedFields give the same result, whatever other
\* entries they contain.
C26_UnsignedEnvIgnored ==
    (tVerified = 2 /\ \A k \in SignedEnvNames : AgreeOn(k)) => tErr1 = tErr2

\* A signature that covers env::A was verified under an env holding A alone
\* and under one holding B as well, which the signature does not cover, and
\* was accepted both times.
C26_Witness ==
    /\ tVerified = 2
    /\ tSig = tRes.sig /\ tRes.err = ""
    /\ \E i \in 1..Len(tSig.SignedFields) : tSig.SignedFields[i] = EnvNamespacePrefix \o VarA
    /\ tEnv1 = (VarA :> Val2)
    /\ tEnv2 = (VarA :> Val2) @@ (VarB :> Val1)
    /\ tErr1 = "" /\ tErr2 = ""

\* The presented signature is the one Sign returned with its Algorithm
\* string changed and nothing else.
AlgorithmChanged ==
    /\ tRes.err = ""
    /\ tSig.Algorithm # tRes.sig.Algorithm
    /\ tSig = [tRes.sig EXCEPT !.Algorithm = tSig.Algorithm]

\* C27: the signature's Algorithm field is bound into the signed payload:
\* Verify of a signature whose Algorithm string was changed after signing
\* (all else equal) fails.
C27_AlgorithmBound ==
    /\ (tVerified >= 1 /\ AlgorithmChanged) => tErr1 # ""
    /\ (tVerified = 2 /\ AlgorithmChanged) => tErr2 # ""

\* A signature made with an HS256 key had its Algorithm set to EdDSA and was
\* refused under the key set, object and env that accept the signature as
\* Sign returned it.
C27_Witness ==
    /\ tVerified = 1 /\ AlgorithmChanged
    /\ tKey = Key1 /\ tSig.Algorithm = EdDSA
    /\ tKeyMaterial = KeySetMaterial({Key1})
    /\ tVerObj = tObjPost /\ tEnv1 = tSignEnv
    /\ VerifyAny("live", tRes.sig, tKeyMaterial, tVerObj, tEnv1).err = ""
    /\ tErr1 # ""

\* Verify was given what Sign returned, the object and env Sign had, and the
\* signer that signed as key material.
SignerRoundTrip ==
    /\ tVerified >= 1
    /\ tKey \in Signers
    /\ tRes.err = ""
    /\ tSig = tRes.sig
    /\ tKeyMaterial = SignerMaterial(tKey)
    /\ tVerObj = tObjPost
    /\ tEnv1 = tSignEnv

\* C29: single-signer round trip: for a crypto.Signer key reporting
\* algorithm A, the signature returned by Sign with that key is accepted by
\* Verify when the same signer is passed as key material, for every
\* signature algorithm A the signer can report (not only ES256).
C29_SignerRoundTripEveryAlgorithm == SignerRoundTrip => tErr1 = ""

\* The round trip of a signer that reports ES256.
SignerRoundTripES256 == (SignerRoundTrip /\ tKey.alg = ES256Name) => tErr1 = ""

\* A signer that reports EdDSA signed, and Verify refused the signature.
SignerRoundTripRefused == SignerRoundTrip /\ tKey = SignerEdDSA /\ tErr1 # ""

-----------------------------------------------------------------------------
(* Claims about env.New.                                                   *)

\* The keys the FromMap options of the call loaded.
LoadedKeys == UNION {DOMAIN nOpts[i].source : i \in {j \in 1..Len(nOpts) : nOpts[j].kind = "FromMap"}}

\* C28: Env construction keeps the case invariant for every order of
\* options: in an Env returned by New that is case-insensitive, every stored
\* key is upper-case, so each key loaded by FromMap is found by Get in any
\* casing, also when FromMap is applied before CaseInsensitive or
\* CaseSensitivityFromOS.
C28_CaseInvariantForEveryOrder ==
    (nDone /\ nCaseInsensitive) =>
        /\ \A k \in DOMAIN nEnv : k = ToUpper(k)
        /\ (nGot.called /\ \E k \in LoadedKeys : ToUpper(k) = ToUpper(nGetKey)) => nGot.found

\* The mode is set before any FromMap runs and not changed after one.
ModeSetFirst ==
    \A i, j \in 1..Len(nOpts) : (nOpts[i].kind = "FromMap" /\ i < j) => nOpts[j].kind = "FromMap"

\* With the case options before the FromMap options the invariant holds.
CaseInvariantWhenModeSetFirst ==
    (nDone /\ nCaseInsensitive /\ ModeSetFirst) =>
        /\ \A k \in DOMAIN nEnv : k = ToUpper(k)
        /\ (nGot.called /\ \E k \in LoadedKeys : ToUpper(k) = ToUpper(nGetKey)) => nGot.found


-----------------------------------------------------------------------------
(* Claims about the parseYAML binding.                                     *)

\* The callbacks of promise i have been invoked with reject.
Rejected(i) == \E n \in 1..Len(wPromises[i].calls) : wPromises[i].calls[n] = "reject"

\* No callback of a promise that has been rejected is invoked again.
NothingAfterReject ==
    \A i \in 1..Len(wPromises) : Rejected(i) => wPromises'[i].calls = wPromises[i].calls

\* No promise has had more than one call of its callbacks, and one whose
\* goroutine has finished has had exactly one.
AtMostOnce ==
    \A i \in 1..Len(wPromises) :
       /\ Len(wPromises[i].calls) <= 1
       /\ wPromises[i].pc = "done" => Len(wPromises[i].calls) = 1

\* C30: each promise returned by the parseYAML binding is settled exactly
\* once: for every input exactly one of resolve and reject is invoked, and
\* after reject has been invoked (parse error, parse warning or marshal
\* error) neither callback is invoked again.
C30_SettledExactlyOnce == []AtMostOnce /\ [][NothingAfterReject]_vars

\* The promise for a pipeline with a step of unknown type has had reject and
\* then resolve.
RejectThenResolve ==
    \E i \in 1..Len(wPromises) :
       /\ wPromises[i].input = DocumentInput(<<ScalarNode("catawumpus")>>)
       /\ wPromises[i].calls = <<"reject", "resolve">>

=============================================================================
